---- MODULE Spec2Model ----
(***************************************************************************)
(* The CSS block consumer of src/libserver/css/css_parser.cxx as a state   *)
(* machine: the tokeniser, the five mutually recursive consumers on an     *)
(* explicit call stack, the top-level driver consume_css_blocks, the rule  *)
(* assembler consume_input and the wrapper parse_css.                      *)
(***************************************************************************)
EXTENDS Integers, Sequences, FiniteSets, TLC

VARIABLES
    input,          \* the token types the tokeniser will emit, in order
    tokeniser,      \* [pos, backlog]: tokens read from input; pushed-back tokens
    stack,          \* call stack; stack[1] is consume_css_blocks, the rest consumers
    rec_level,      \* css_parser::rec_level
    eof,            \* css_parser::eof
    error,          \* css_parser::error (its type)
    style_object,   \* css_parser::style_object
    pc,             \* position in parse_css / consume_input
    rules_it,       \* index of the rule the assembler loop is at
    consume_ok,     \* return value of consume_input
    result,         \* what parse_css returned
    attach_failed,  \* some attach_block / add_function_argument returned false
    tripped,        \* history: the consumer whose recursion guard tripped first
    calls,          \* history: the rules consume_input handed to the two parsers
    blocks_gen,     \* the functor get_selectors_parser_functor returned, and its calls
    rspamd_log,     \* the logger structure of logger.c
    log_os          \* what surrounds the logger: descriptors, output, clock, calls

vars == <<input, tokeniser, stack, rec_level, eof, error, style_object, pc,
          rules_it, consume_ok, result, attach_failed, tripped, calls, blocks_gen,
                   rspamd_log, log_os>>

(***************************************************************************)
(* Bounds of the model                                                     *)
(***************************************************************************)
MaxLen == 3          \* Spec: free tokens of an input
MaxTail == 2         \* SpecNest: free tokens after the run of open brackets
NestBelow == 2       \* SpecNest: shortest run of brackets is max_rec - NestBelow
MaxSelectors == 2    \* selectors the selector parser may return for one rule
MaxExtraCalls == 1   \* calls of a token functor after it returned the sentinel
MaxAttach == 3       \* SpecBlocks: children one block is given

(***************************************************************************)
(* Program constants                                                       *)
(***************************************************************************)
max_rec == 20

(***************************************************************************)
(* Tokens                                                                  *)
(***************************************************************************)
Token(t, i) == [type |-> t, pos |-> i]
NoToken == [type |-> "none", pos |-> 0]
EofToken == [type |-> "eof", pos |-> Len(input) + 1]

\* css_tokeniser::next_token: the pushed-back token if any, else the next
\* token of the input, else eof for ever
next_token ==
    IF tokeniser.backlog # <<>> THEN Head(tokeniser.backlog)
    ELSE IF tokeniser.pos < Len(input)
         THEN Token(input[tokeniser.pos + 1], tokeniser.pos + 1)
         ELSE EofToken

\* the tokeniser after next_token
after_next_token ==
    IF tokeniser.backlog # <<>> THEN [tokeniser EXCEPT !.backlog = Tail(@)]
    ELSE IF tokeniser.pos < Len(input)
         THEN [tokeniser EXCEPT !.pos = @ + 1]
         ELSE tokeniser

\* css_tokeniser::pushback_token
pushback_token(tk, tok) == [tk EXCEPT !.backlog = <<tok>> \o @]

\* tokens consumed and not pushed back
NetConsumed == tokeniser.pos - Len(tokeniser.backlog)

(***************************************************************************)
(* Consumed blocks                                                         *)
(***************************************************************************)
ListTags == {"top", "qualified_rule", "at_rule", "simple_block"}

NoBlock == [tag |-> "null", shape |-> "empty", token |-> NoToken, blocks |-> <<>>]

\* css_consumed_block(tag)
NewBlock(tag) ==
    [tag |-> tag,
     shape |-> IF tag \in ListTags THEN "list" ELSE "empty",
     token |-> NoToken, blocks |-> <<>>]

\* css_consumed_block(tag, token)
NewTokenBlock(tag, tok) ==
    [tag |-> tag,
     shape |-> IF tag = "function" THEN "function" ELSE "token",
     token |-> tok, blocks |-> <<>>]

\* css_parser_eof_block: a block constructed without a tag, nothing in it
css_parser_eof_block ==
    [tag |-> "eof", shape |-> "empty", token |-> NoToken, blocks |-> <<>>]

\* the push_back done whatever the content is
AttachBlockUnchecked(node, child) ==
    [ok |-> TRUE,
     node |-> [node EXCEPT !.shape = "list", !.blocks = Append(@, child)]]

attach_block(node, child) ==
    IF node.shape = "empty"
    THEN [ok |-> TRUE, node |-> [node EXCEPT !.shape = "list", !.blocks = <<child>>]]
    ELSE IF node.shape # "list"
         THEN [ok |-> FALSE, node |-> node]
         ELSE [ok |-> TRUE, node |-> [node EXCEPT !.blocks = Append(@, child)]]

add_function_argument(node, child) ==
    IF node.shape # "function"
    THEN [ok |-> FALSE, node |-> node]
    ELSE [ok |-> TRUE, node |-> [node EXCEPT !.blocks = Append(@, child)]]

get_blocks_or_empty(node) == IF node.shape = "list" THEN node.blocks ELSE <<>>

(***************************************************************************)
(* Call stack                                                              *)
(***************************************************************************)
\* A frame of a consumer.  top is the index of the frame that owns the block
\* the consumer was handed as `top'; block is the consumer's local `block';
\* more is want_more / need_more (for simple_block_consumer: not yet broken
\* out of the loop); mark is NetConsumed at the start of the last iteration.
Frame(fn, top, expected_end, consume_current) ==
    [fn |-> fn, pc |-> "entry", ret |-> TRUE, more |-> TRUE, block |-> NoBlock,
     top |-> top, expected_end |-> expected_end,
     consume_current |-> consume_current, mark |-> -1]

DriverFrame ==
    [fn |-> "consume_css_blocks", pc |-> "loop", ret |-> TRUE, more |-> TRUE,
     block |-> NewBlock("top"), top |-> 0, expected_end |-> "none",
     consume_current |-> FALSE, mark |-> -1]

Cur == stack[Len(stack)]

\* the callee returns r: its frame is popped and the caller's `ret = callee(...)'
\* assignment completes
Return(stk, r) ==
    [SubSeq(stk, 1, Len(stk) - 1) EXCEPT ![Len(stk) - 1].ret = r,
                                         ![Len(stk) - 1].pc = "loop"]

\* the running frame, changed to cur, calls a consumer
Call(cur, callee) ==
    Append([stack EXCEPT ![Len(stack)] = [cur EXCEPT !.pc = "wait"]], callee)

\* the running frame at the head of its loop
Running(fn) ==
    /\ pc = "consume_css_blocks"
    /\ Cur.fn = fn
    /\ Cur.pc = "loop"

Entering(fn) ==
    /\ pc = "consume_css_blocks"
    /\ Cur.fn = fn
    /\ Cur.pc = "entry"

\* the guard compared one level too late
GuardTripsLate(level) == level > max_rec + 1

\* `++rec_level > max_rec', level being the incremented value
GuardTrips(level) == level > max_rec

\* structural depth of the block owned by frame i (top = 0)
RECURSIVE BlockDepth(_, _)
BlockDepth(stk, i) == IF i <= 1 THEN 0 ELSE BlockDepth(stk, stk[i].top) + 1

\* what the guard cut off: the consumer, the counter value it compared, and
\* the depth and tag of the block it was handed as `top'
TripRecord(fn) ==
    IF tripped.fn = "none"
    THEN [fn |-> fn, level |-> rec_level + 1,
          top_depth |-> BlockDepth(stack, Cur.top),
          top_tag |-> stack[Cur.top].block.tag,
          pos |-> tokeniser.pos]
    ELSE tripped

NoTrip == [fn |-> "none", level |-> 0, top_depth |-> 0, top_tag |-> "none", pos |-> 0]

CssUnchanged ==
    UNCHANGED <<input, style_object, pc, rules_it, consume_ok, result, calls,
                blocks_gen,
                   rspamd_log, log_os>>

(***************************************************************************)
(* function_consumer                                                       *)
(***************************************************************************)
FcLoop(ret, want_more, e) == ret /\ want_more /\ ~e

\* the switch without comma_token among the skipped tokens
FcBranchKeepsComma(type) ==
    CASE type = "eof" -> "eof"
      [] type = "whitespace" -> "skip"
      [] type = "ebrace" -> "end"
      [] type \in {"delim", "obrace"} -> "separator"
      [] OTHER -> "arg"

FcBranch(type) ==
    CASE type = "eof" -> "eof"
      [] type = "whitespace" -> "skip"
      [] type = "ebrace" -> "end"
      [] type \in {"comma", "delim", "obrace"} -> "separator"
      [] OTHER -> "arg"

Enter_function_consumer ==
    /\ Entering("function_consumer")
    /\ rec_level' = rec_level + 1
    /\ IF GuardTrips(rec_level + 1)
       THEN /\ error' = "BAD_NESTING"
            /\ tripped' = TripRecord("function_consumer")
            /\ stack' = Return(stack, FALSE)
       ELSE /\ stack' = [stack EXCEPT ![Len(stack)].pc = "loop"]
            /\ UNCHANGED <<error, tripped>>
    /\ UNCHANGED <<tokeniser, eof, attach_failed>>
    /\ CssUnchanged

Iter_function_consumer ==
    /\ Running("function_consumer")
    /\ FcLoop(Cur.ret, Cur.more, eof)
    /\ LET tok == next_token
           br == FcBranch(tok.type)
           cur == [Cur EXCEPT !.mark = NetConsumed]
           att == add_function_argument(stack[Cur.top].block,
                                        NewTokenBlock("function_arg", tok))
       IN /\ tokeniser' = after_next_token
          /\ eof' = (br = "eof")
          /\ stack' =
               CASE br = "end" ->
                      [stack EXCEPT ![Len(stack)] = [cur EXCEPT !.ret = TRUE, !.more = FALSE]]
                 [] br = "arg" ->
                      [stack EXCEPT ![Len(stack)] = cur, ![Cur.top].block = att.node]
                 [] OTHER -> [stack EXCEPT ![Len(stack)] = cur]
          /\ attach_failed' = (attach_failed \/ (br = "arg" /\ ~att.ok))
    /\ UNCHANGED <<rec_level, error, tripped>>
    /\ CssUnchanged

Exit_function_consumer ==
    /\ Running("function_consumer")
    /\ ~FcLoop(Cur.ret, Cur.more, eof)
    /\ rec_level' = rec_level - 1
    /\ stack' = Return(stack, Cur.ret)
    /\ UNCHANGED <<tokeniser, eof, error, tripped, attach_failed>>
    /\ CssUnchanged

(***************************************************************************)
(* simple_block_consumer                                                   *)
(***************************************************************************)
\* the loop without its eof test
SbcLoopNoEof(ret, not_broken, e) == ret /\ not_broken

\* `while (ret && !eof)', left by break on expected_end
SbcLoop(ret, not_broken, e) == ret /\ ~e /\ not_broken

\* an at_keyword inside the block consumed and dropped
SbcBranchDropsAtKeyword(type, expected_end) ==
    CASE type = expected_end -> "end"
      [] type = "eof" -> "eof"
      [] type \in {"whitespace", "at_keyword"} -> "skip"
      [] OTHER -> "component"

\* any closing bracket taken for the end of the block
SbcBranchAnyCloser(type, expected_end) ==
    CASE type \in {"ecurlbrace", "ebrace", "esqbrace"} -> "end"
      [] type = "eof" -> "eof"
      [] type = "whitespace" -> "skip"
      [] OTHER -> "component"

\* the switch without its whitespace case
SbcBranchKeepsWhitespace(type, expected_end) ==
    CASE type = expected_end -> "end"
      [] type = "eof" -> "eof"
      [] OTHER -> "component"

SbcBranch(type, expected_end) ==
    CASE type = expected_end -> "end"
      [] type = "eof" -> "eof"
      [] type = "whitespace" -> "skip"
      [] OTHER -> "component"

\* the block attached without looking at ret
SbcAttachesAlways(consume_current, ret) == ~consume_current

\* a block that the end of input cut short, not attached
SbcAttachesUnlessEof(consume_current, ret) == ~consume_current /\ ret /\ ~eof

\* `if (!consume_current && ret)' before attach_block
SbcAttaches(consume_current, ret) == ~consume_current /\ ret

\* every call counted, consume_current or not: a call-depth metric
SbcCountsAlways(consume_current) == TRUE

\* the call takes a level of the recursion counter: `!consume_current && ++rec_level'
\* on entry, `if (!consume_current) --rec_level' on exit
SbcCounts(consume_current) == ~consume_current

Enter_simple_block_consumer ==
    /\ Entering("simple_block_consumer")
    /\ rec_level' = IF SbcCounts(Cur.consume_current) THEN rec_level + 1 ELSE rec_level
    /\ IF SbcCounts(Cur.consume_current) /\ GuardTrips(rec_level + 1)
       THEN /\ error' = "BAD_NESTING"
            /\ tripped' = TripRecord("simple_block_consumer")
            /\ stack' = Return(stack, FALSE)
       ELSE /\ stack' = [stack EXCEPT ![Len(stack)].pc = "loop",
                                      ![Len(stack)].block =
                                          IF Cur.consume_current THEN NoBlock
                                          ELSE NewBlock("simple_block")]
            /\ UNCHANGED <<error, tripped>>
    /\ UNCHANGED <<tokeniser, eof, attach_failed>>
    /\ CssUnchanged

Iter_simple_block_consumer ==
    /\ Running("simple_block_consumer")
    /\ SbcLoop(Cur.ret, Cur.more, eof)
    /\ LET tok == next_token
           br == SbcBranch(tok.type, Cur.expected_end)
           cur == [Cur EXCEPT !.mark = NetConsumed]
           target == IF Cur.consume_current THEN Cur.top ELSE Len(stack)
       IN /\ tokeniser' = IF br = "component"
                          THEN pushback_token(after_next_token, tok)
                          ELSE after_next_token
          /\ eof' = (br = "eof")
          /\ stack' =
               CASE br = "end" -> [stack EXCEPT ![Len(stack)] = [cur EXCEPT !.more = FALSE]]
                 [] br = "component" ->
                      Call(cur, Frame("component_value_consumer", target, "none", FALSE))
                 [] OTHER -> [stack EXCEPT ![Len(stack)] = cur]
    /\ UNCHANGED <<rec_level, error, tripped, attach_failed>>
    /\ CssUnchanged

Exit_simple_block_consumer ==
    /\ Running("simple_block_consumer")
    /\ ~SbcLoop(Cur.ret, Cur.more, eof)
    /\ LET att == attach_block(stack[Cur.top].block, Cur.block)
           does == SbcAttaches(Cur.consume_current, Cur.ret)
       IN /\ stack' = Return(IF does THEN [stack EXCEPT ![Cur.top].block = att.node]
                                     ELSE stack, Cur.ret)
          /\ attach_failed' = (attach_failed \/ (does /\ ~att.ok))
    /\ rec_level' = IF SbcCounts(Cur.consume_current) THEN rec_level - 1 ELSE rec_level
    /\ UNCHANGED <<tokeniser, eof, error, tripped>>
    /\ CssUnchanged

(***************************************************************************)
(* qualified_rule_consumer                                                 *)
(***************************************************************************)
\* the loop condition without its `!eof'
QrcLoopNoEof(ret, want_more, e) == ret /\ want_more

QrcLoop(ret, want_more, e) == ret /\ want_more /\ ~e

\* the switch without its cdo/cdc case
QrcBranchNoCd(type) ==
    CASE type = "eof" -> "eof"
      [] type = "ocurlbrace" -> "block"
      [] type = "whitespace" -> "skip"
      [] OTHER -> "component"

\* cdo/cdc under top taken for a failure
CdRetFalse(ret, top_tag) == IF top_tag = "top" THEN FALSE ELSE ret

\* ret after a cdo/cdc token: `if (top->tag == css_top_block) ret = true;',
\* else nothing
CdRet(ret, top_tag) == IF top_tag = "top" THEN TRUE ELSE ret

QrcBranch(type) ==
    CASE type = "eof" -> "eof"
      [] type \in {"cdo", "cdc"} -> "cd"
      [] type = "ocurlbrace" -> "block"
      [] type = "whitespace" -> "skip"
      [] OTHER -> "component"

\* want_more also cleared after a component
QrcWantMoreOnce(br) == br \notin {"block", "component"}

\* want_more after the branch was taken: only the `{' branch clears it
QrcWantMore(br) == br # "block"

\* `if (top->tag == css_top_block)' around attach_block, for both rule consumers
RuleAttaches(ret, top_tag) == ret /\ top_tag = "top"

Enter_qualified_rule_consumer ==
    /\ Entering("qualified_rule_consumer")
    /\ rec_level' = rec_level + 1
    /\ IF GuardTrips(rec_level + 1)
       THEN /\ error' = "BAD_NESTING"
            /\ tripped' = TripRecord("qualified_rule_consumer")
            /\ stack' = Return(stack, FALSE)
       ELSE /\ stack' = [stack EXCEPT ![Len(stack)].pc = "loop",
                                      ![Len(stack)].block = NewBlock("qualified_rule")]
            /\ UNCHANGED <<error, tripped>>
    /\ UNCHANGED <<tokeniser, eof, attach_failed>>
    /\ CssUnchanged

Iter_qualified_rule_consumer ==
    /\ Running("qualified_rule_consumer")
    /\ QrcLoop(Cur.ret, Cur.more, eof)
    /\ LET tok == next_token
           br == QrcBranch(tok.type)
           cur == [Cur EXCEPT !.mark = NetConsumed, !.more = QrcWantMore(br)]
       IN /\ tokeniser' = IF br = "component"
                          THEN pushback_token(after_next_token, tok)
                          ELSE after_next_token
          /\ eof' = (br = "eof")
          /\ stack' =
               CASE br = "block" ->
                      Call(cur, Frame("simple_block_consumer", Len(stack), "ecurlbrace", FALSE))
                 [] br = "component" ->
                      Call(cur, Frame("component_value_consumer", Len(stack), "none", FALSE))
                 [] br = "cd" ->
                      [stack EXCEPT ![Len(stack)] =
                          [cur EXCEPT !.ret = CdRet(@, stack[Cur.top].block.tag)]]
                 [] OTHER -> [stack EXCEPT ![Len(stack)] = cur]
    /\ UNCHANGED <<rec_level, error, tripped, attach_failed>>
    /\ CssUnchanged

Exit_qualified_rule_consumer ==
    /\ Running("qualified_rule_consumer")
    /\ ~QrcLoop(Cur.ret, Cur.more, eof)
    /\ LET att == attach_block(stack[Cur.top].block, Cur.block)
           does == RuleAttaches(Cur.ret, stack[Cur.top].block.tag)
       IN /\ stack' = Return(IF does THEN [stack EXCEPT ![Cur.top].block = att.node]
                                     ELSE stack, Cur.ret)
          /\ attach_failed' = (attach_failed \/ (does /\ ~att.ok))
    /\ rec_level' = rec_level - 1
    /\ UNCHANGED <<tokeniser, eof, error, tripped>>
    /\ CssUnchanged

(***************************************************************************)
(* at_rule_consumer                                                        *)
(***************************************************************************)
ArcLoop(ret, want_more, e) == ret /\ want_more /\ ~e

ArcBranch(type) ==
    CASE type = "eof" -> "eof"
      [] type \in {"cdo", "cdc"} -> "cd"
      [] type = "ocurlbrace" -> "block"
      [] type = "whitespace" -> "skip"
      [] type = "semicolon" -> "semicolon"
      [] OTHER -> "component"

\* want_more not cleared by a semicolon
ArcWantMoreBlockOnly(br) == br # "block"

\* want_more after the branch was taken: the `{' and the `;' branches clear it
ArcWantMore(br) == br \notin {"block", "semicolon"}

Enter_at_rule_consumer ==
    /\ Entering("at_rule_consumer")
    /\ rec_level' = rec_level + 1
    /\ IF GuardTrips(rec_level + 1)
       THEN /\ error' = "BAD_NESTING"
            /\ tripped' = TripRecord("at_rule_consumer")
            /\ stack' = Return(stack, FALSE)
       ELSE /\ stack' = [stack EXCEPT ![Len(stack)].pc = "loop",
                                      ![Len(stack)].block = NewBlock("at_rule")]
            /\ UNCHANGED <<error, tripped>>
    /\ UNCHANGED <<tokeniser, eof, attach_failed>>
    /\ CssUnchanged

Iter_at_rule_consumer ==
    /\ Running("at_rule_consumer")
    /\ ArcLoop(Cur.ret, Cur.more, eof)
    /\ LET tok == next_token
           br == ArcBranch(tok.type)
           cur == [Cur EXCEPT !.mark = NetConsumed, !.more = ArcWantMore(br)]
       IN /\ tokeniser' = IF br = "component"
                          THEN pushback_token(after_next_token, tok)
                          ELSE after_next_token
          /\ eof' = (br = "eof")
          /\ stack' =
               CASE br = "block" ->
                      Call(cur, Frame("simple_block_consumer", Len(stack), "ecurlbrace", FALSE))
                 [] br = "component" ->
                      Call(cur, Frame("component_value_consumer", Len(stack), "none", FALSE))
                 [] br = "cd" ->
                      [stack EXCEPT ![Len(stack)] =
                          [cur EXCEPT !.ret = CdRet(@, stack[Cur.top].block.tag)]]
                 [] OTHER -> [stack EXCEPT ![Len(stack)] = cur]
    /\ UNCHANGED <<rec_level, error, tripped, attach_failed>>
    /\ CssUnchanged

Exit_at_rule_consumer ==
    /\ Running("at_rule_consumer")
    /\ ~ArcLoop(Cur.ret, Cur.more, eof)
    /\ LET att == attach_block(stack[Cur.top].block, Cur.block)
           does == RuleAttaches(Cur.ret, stack[Cur.top].block.tag)
       IN /\ stack' = Return(IF does THEN [stack EXCEPT ![Cur.top].block = att.node]
                                     ELSE stack, Cur.ret)
          /\ attach_failed' = (attach_failed \/ (does /\ ~att.ok))
    /\ rec_level' = rec_level - 1
    /\ UNCHANGED <<tokeniser, eof, error, tripped>>
    /\ CssUnchanged

(***************************************************************************)
(* component_value_consumer                                                *)
(***************************************************************************)
\* the eof test of the loop inverted
CvcLoopAtEof(ret, need_more, e) == ret /\ need_more /\ e

\* `while (ret && need_more && !eof)'
CvcLoop(ret, need_more, e) == ret /\ need_more /\ ~e

CvcBranch(type) ==
    CASE type = "eof" -> "eof"
      [] type = "ocurlbrace" -> "curl"
      [] type = "obrace" -> "round"
      [] type = "osqbrace" -> "square"
      [] type = "whitespace" -> "skip"
      [] type = "function" -> "function"
      [] OTHER -> "component"

\* the expected_end handed to simple_block_consumer for each bracket
CvcExpectedEnd(br) ==
    CASE br = "curl" -> "ecurlbrace"
      [] br = "round" -> "ebrace"
      [] OTHER -> "esqbrace"

\* the function token wrapped as a plain component
CvcFunctionTagComponent == "component"

\* the tag of the block built for a function token
CvcFunctionTag == "function"

\* `if (ret && block)' before attach_block
CvcAttaches(ret, block) == ret /\ block # NoBlock

Enter_component_value_consumer ==
    /\ Entering("component_value_consumer")
    /\ rec_level' = rec_level + 1
    /\ IF GuardTrips(rec_level + 1)
       THEN /\ error' = "BAD_NESTING"
            /\ tripped' = TripRecord("component_value_consumer")
            /\ stack' = Return(stack, FALSE)
       ELSE /\ stack' = [stack EXCEPT ![Len(stack)].pc = "loop"]
            /\ UNCHANGED <<error, tripped>>
    /\ UNCHANGED <<tokeniser, eof, attach_failed>>
    /\ CssUnchanged

Iter_component_value_consumer ==
    /\ Running("component_value_consumer")
    /\ CvcLoop(Cur.ret, Cur.more, eof)
    /\ LET tok == next_token
           br == CvcBranch(tok.type)
           cur == [Cur EXCEPT !.mark = NetConsumed,
                              !.more = (br \in {"eof", "skip"})]
       IN /\ tokeniser' = after_next_token
          /\ eof' = (br = "eof")
          /\ stack' =
               CASE br \in {"curl", "round", "square"} ->
                      Call([cur EXCEPT !.block = NewBlock("simple_block")],
                           Frame("simple_block_consumer", Len(stack),
                                 CvcExpectedEnd(br), TRUE))
                 [] br = "function" ->
                      Call([cur EXCEPT !.block = NewTokenBlock(CvcFunctionTag, tok)],
                           Frame("function_consumer", Len(stack), "none", FALSE))
                 [] br = "component" ->
                      [stack EXCEPT ![Len(stack)] =
                          [cur EXCEPT !.block = NewTokenBlock("component", tok)]]
                 [] OTHER -> [stack EXCEPT ![Len(stack)] = cur]
    /\ UNCHANGED <<rec_level, error, tripped, attach_failed>>
    /\ CssUnchanged

Exit_component_value_consumer ==
    /\ Running("component_value_consumer")
    /\ ~CvcLoop(Cur.ret, Cur.more, eof)
    /\ LET att == attach_block(stack[Cur.top].block, Cur.block)
           does == CvcAttaches(Cur.ret, Cur.block)
       IN /\ stack' = Return(IF does THEN [stack EXCEPT ![Cur.top].block = att.node]
                                     ELSE stack, Cur.ret)
          /\ attach_failed' = (attach_failed \/ (does /\ ~att.ok))
    /\ rec_level' = rec_level - 1
    /\ UNCHANGED <<tokeniser, eof, error, tripped>>
    /\ CssUnchanged

(***************************************************************************)
(* consume_css_blocks: the top-level driver                                *)
(***************************************************************************)
\* the loop going on after a consumer failed
DriverLoopIgnoresRet(ret, e) == ~e

\* `while (!eof && ret)'
DriverLoop(ret, e) == ~e /\ ret

DriverBranch(type) ==
    CASE type = "whitespace" -> "skip"
      [] type = "eof" -> "eof"
      [] type = "at_keyword" -> "at_rule"
      [] OTHER -> "qualified_rule"

\* the tree consume_css_blocks builds and returns
consumed_blocks == stack[1].block

Iter_consume_css_blocks ==
    /\ Running("consume_css_blocks")
    /\ DriverLoop(Cur.ret, eof)
    /\ LET tok == next_token
           br == DriverBranch(tok.type)
           cur == [Cur EXCEPT !.mark = NetConsumed]
       IN /\ tokeniser' = IF br \in {"at_rule", "qualified_rule"}
                          THEN pushback_token(after_next_token, tok)
                          ELSE after_next_token
          /\ eof' = (br = "eof")
          /\ stack' =
               CASE br = "at_rule" ->
                      Call(cur, Frame("at_rule_consumer", 1, "none", FALSE))
                 [] br = "qualified_rule" ->
                      Call(cur, Frame("qualified_rule_consumer", 1, "none", FALSE))
                 [] OTHER -> [stack EXCEPT ![1] = cur]
    /\ UNCHANGED <<rec_level, error, tripped, attach_failed>>
    /\ CssUnchanged

Exit_consume_css_blocks ==
    /\ Running("consume_css_blocks")
    /\ ~DriverLoop(Cur.ret, eof)
    /\ pc' = "consume_input"
    /\ UNCHANGED <<input, tokeniser, stack, rec_level, eof, error, style_object,
                   rules_it, consume_ok, result, attach_failed, tripped, calls, blocks_gen,
                   rspamd_log, log_os>>

(***************************************************************************)
(* consume_input: the rule assembler, and parse_css                        *)
(***************************************************************************)
NoSheet == [present |-> FALSE, rules |-> <<>>]
EmptySheet == [present |-> TRUE, rules |-> <<>>]
NoResult == [kind |-> "none", error |-> "none", sheet |-> NoSheet]

\* what process_declaration_tokens may return: no set, an empty set, a set
\* with rules
DeclOutcomes == {"null", "empty", "rules"}

\* the search run from the end: the last simple block; 0 is end()
FindLastSimpleBlock(children, i) ==
    LET found == {j \in i .. Len(children) : children[j].tag = "simple_block"}
    IN IF found = {} THEN 0 ELSE CHOOSE j \in found : \A l \in found : l <= j

\* std::find_if over the children for the first simple block; 0 is end()
RECURSIVE FindSimpleBlock(_, _)
FindSimpleBlock(children, i) ==
    IF i > Len(children) THEN 0
    ELSE IF children[i].tag = "simple_block" THEN i
    ELSE FindSimpleBlock(children, i + 1)

\* the rule has a leading component and a simple block
RuleProcessed(rule) ==
    LET children == get_blocks_or_empty(rule)
    IN /\ Len(children) > 1
       /\ children[1].tag = "component"
       /\ FindSimpleBlock(children, 1) # 0

\* the end test of the functor made one position too late
SelectorTokenFunctorPastEnd(children, simple_block, selector_it) ==
    IF selector_it = simple_block + 1
    THEN [ret |-> css_parser_eof_block, it |-> selector_it]
    ELSE [ret |-> children[selector_it], it |-> selector_it + 1]

\* one call of selector_token_functor, selector_it and simple_block being
\* positions in children: what it returns, and selector_it afterwards
selector_token_functor(children, simple_block, selector_it) ==
    IF selector_it = simple_block
    THEN [ret |-> css_parser_eof_block, it |-> selector_it]
    ELSE [ret |-> children[selector_it], it |-> selector_it + 1]

\* one call of declaration_token_functor; decls_end is Len(decls) + 1
declaration_token_functor(decls, decls_end, decls_it) ==
    IF decls_it = decls_end
    THEN [ret |-> css_parser_eof_block, it |-> decls_it]
    ELSE [ret |-> decls[decls_it], it |-> decls_it + 1]

\* what n calls in a row return, the iterator being at position it
RECURSIVE SelectorReturns(_, _, _, _)
SelectorReturns(children, simple_block, it, n) ==
    IF n = 0 THEN <<>>
    ELSE LET r == selector_token_functor(children, simple_block, it)
         IN <<r.ret>> \o SelectorReturns(children, simple_block, r.it, n - 1)

RECURSIVE DeclarationReturns(_, _, _, _)
DeclarationReturns(decls, decls_end, it, n) ==
    IF n = 0 THEN <<>>
    ELSE LET r == declaration_token_functor(decls, decls_end, it)
         IN <<r.ret>> \o DeclarationReturns(decls, decls_end, r.it, n - 1)

\* the blocks a parser was given before the first end-of-block sentinel
BeforeSentinel(returns) ==
    LET sentinels == {k \in 1 .. Len(returns) : returns[k] = css_parser_eof_block}
    IN IF sentinels = {} THEN returns
       ELSE SubSeq(returns, 1, (CHOOSE k \in sentinels :
                                   \A l \in sentinels : k <= l) - 1)

\* What consume_input does with one rule that has a component and a simple
\* block.  process_selector_tokens calls its functor until it returns the
\* sentinel and then MaxExtraCalls more times, and returns nsel selectors; if
\* any, process_declaration_tokens does the same with its functor over the
\* children of the simple block, and returns decl.
ParserCall(it, rule, nsel, decl) ==
    LET children == get_blocks_or_empty(rule)
        simple_block == FindSimpleBlock(children, 1)
        decls == get_blocks_or_empty(children[simple_block])
        selector_returns ==
            SelectorReturns(children, simple_block, 1, simple_block + MaxExtraCalls)
        declaration_returns ==
            IF nsel > 0
            THEN DeclarationReturns(decls, Len(decls) + 1, 1,
                                    Len(decls) + 1 + MaxExtraCalls)
            ELSE <<>>
    IN [rule |-> it,
        simple_block |-> simple_block,
        selector_returns |-> selector_returns,
        selector_tokens |-> BeforeSentinel(selector_returns),
        declaration_returns |-> declaration_returns,
        declaration_tokens |->
            IF nsel > 0 THEN <<BeforeSentinel(declaration_returns)>> ELSE <<>>,
        selectors |-> nsel,
        declarations |-> IF nsel > 0 THEN decl ELSE "none"]

\* `if (rules.empty()) return false;', else the style sheet is created
Begin_consume_input ==
    /\ pc = "consume_input"
    /\ IF get_blocks_or_empty(consumed_blocks) = <<>>
       THEN /\ consume_ok' = FALSE
            /\ pc' = "parse_css"
            /\ UNCHANGED <<style_object, rules_it>>
       ELSE /\ style_object' = EmptySheet
            /\ rules_it' = 1
            /\ pc' = "rules"
            /\ UNCHANGED consume_ok
    /\ UNCHANGED <<input, tokeniser, stack, rec_level, eof, error, result,
                   attach_failed, tripped, calls, blocks_gen,
                   rspamd_log, log_os>>

\* one iteration of `for (auto &&rule : rules)'; the two external parsers
\* return any number of selectors and any declaration outcome
Rule_consume_input ==
    /\ pc = "rules"
    /\ rules_it <= Len(get_blocks_or_empty(consumed_blocks))
    /\ \E nsel \in 0 .. MaxSelectors, decl \in DeclOutcomes :
         LET rule == get_blocks_or_empty(consumed_blocks)[rules_it]
             adds == RuleProcessed(rule) /\ nsel > 0 /\ decl = "rules"
         IN /\ style_object' =
                 IF adds
                 THEN [style_object EXCEPT !.rules =
                         @ \o [k \in 1 .. nsel |-> [rule |-> rules_it, selector |-> k]]]
                 ELSE style_object
            /\ calls' =
                 IF RuleProcessed(rule)
                 THEN Append(calls, ParserCall(rules_it, rule, nsel, decl))
                 ELSE calls
    /\ rules_it' = rules_it + 1
    /\ UNCHANGED <<input, tokeniser, stack, rec_level, eof, error, pc, consume_ok,
                   result, attach_failed, tripped, blocks_gen,
                   rspamd_log, log_os>>

End_consume_input ==
    /\ pc = "rules"
    /\ rules_it > Len(get_blocks_or_empty(consumed_blocks))
    /\ consume_ok' = TRUE
    /\ pc' = "parse_css"
    /\ UNCHANGED <<input, tokeniser, stack, rec_level, eof, error, style_object,
                   rules_it, result, attach_failed, tripped, calls, blocks_gen,
                   rspamd_log, log_os>>

\* get_object_maybe handing out the error for a sheet without rules
GetObjectMaybeNonEmpty(sheet, err) ==
    IF sheet.present /\ sheet.rules # <<>>
    THEN [kind |-> "sheet", error |-> "none", sheet |-> sheet]
    ELSE [kind |-> "error", error |-> err, sheet |-> NoSheet]

\* css_parser::get_object_maybe
get_object_maybe(sheet, err) ==
    IF sheet.present
    THEN [kind |-> "sheet", error |-> "none", sheet |-> sheet]
    ELSE [kind |-> "error", error |-> err, sheet |-> NoSheet]

\* parse_css rejecting a style sheet that holds no rule
ParseCssResultStrict(ok, sheet, err) ==
    IF ok /\ sheet.rules # <<>>
    THEN [kind |-> "sheet", error |-> "none", sheet |-> sheet]
    ELSE [kind |-> "error", error |-> "INVALID_SYNTAX", sheet |-> NoSheet]

\* what parse_css returns, given what consume_input returned
ParseCssResult(ok, sheet, err) ==
    IF ok THEN get_object_maybe(sheet, err)
    ELSE [kind |-> "error", error |-> "INVALID_SYNTAX", sheet |-> NoSheet]

Return_parse_css ==
    /\ pc = "parse_css"
    /\ result' = ParseCssResult(consume_ok, style_object, error)
    /\ pc' = "done"
    /\ UNCHANGED <<input, tokeniser, stack, rec_level, eof, error, style_object,
                   rules_it, consume_ok, attach_failed, tripped, calls, blocks_gen,
                   rspamd_log, log_os>>

(***************************************************************************)
(* get_selectors_parser_functor and the functor it returns                 *)
(***************************************************************************)
\* state: "none" before get_selectors_parser_functor ran, "ready" once it
\* returned the functor, "crashed" when it did not return; undefined: it
\* dereferenced rules.begin() of an empty rules; children, cur: what the
\* functor iterates over (last is Len(children) + 1); returned: what its
\* calls returned so far
NoFunctor ==
    [state |-> "none", undefined |-> FALSE, children |-> <<>>, cur |-> 1,
     returned |-> <<>>]

\* what a build may read through `*rules_it' when rules is empty, if it does
\* not fault: no children, or some block that is not a rule of this input
Garbage == {<<>>, <<NewTokenBlock("component", Token("ident", 1))>>}

\* `(*rules_it)->get_blocks_or_empty()' with rules_it = rules.begin() is a
\* dereference of the end iterator when rules is empty
RulesItDereferenced(rules) == rules = <<>>

\* the body of get_selectors_parser_functor after consume_css_blocks returned
Return_get_selectors_parser_functor ==
    /\ Running("consume_css_blocks")
    /\ ~DriverLoop(Cur.ret, eof)
    /\ LET rules == get_blocks_or_empty(consumed_blocks)
       IN IF rules = <<>>
          THEN IF RulesItDereferenced(rules)
               THEN \/ blocks_gen' = [NoFunctor EXCEPT !.state = "crashed",
                                                       !.undefined = TRUE]
                    \/ \E g \in Garbage :
                          blocks_gen' = [NoFunctor EXCEPT !.state = "ready",
                                                          !.undefined = TRUE,
                                                          !.children = g]
               ELSE blocks_gen' = [NoFunctor EXCEPT !.state = "ready"]
          ELSE blocks_gen' =
                 [NoFunctor EXCEPT !.state = "ready",
                                   !.children = get_blocks_or_empty(rules[1])]
    /\ pc' = "blocks_gen_functor"
    /\ UNCHANGED <<input, tokeniser, stack, rec_level, eof, error, style_object,
                   rules_it, consume_ok, result, attach_failed, tripped, calls,
                   rspamd_log, log_os>>

\* one call of the functor: `if (cur != last) { ret = *cur; ++cur; return *ret; }
\* return css_parser_eof_block;'
Call_blocks_gen_functor ==
    /\ pc = "blocks_gen_functor"
    /\ blocks_gen.state = "ready"
    /\ Len(blocks_gen.returned) < Len(blocks_gen.children) + 1 + MaxExtraCalls
    /\ blocks_gen' =
         IF blocks_gen.cur # Len(blocks_gen.children) + 1
         THEN [blocks_gen EXCEPT
                  !.returned = Append(@, blocks_gen.children[blocks_gen.cur]),
                  !.cur = @ + 1]
         ELSE [blocks_gen EXCEPT !.returned = Append(@, css_parser_eof_block)]
    /\ UNCHANGED <<input, tokeniser, stack, rec_level, eof, error, style_object,
                   pc, rules_it, consume_ok, result, attach_failed, tripped, calls,
                   rspamd_log, log_os>>

(***************************************************************************)
(* The logger of src/logger.c.  rspamd_log is the static logger structure, *)
(* log_os what surrounds it: the descriptors, what was written to them,    *)
(* the clock, and the history of the calls made.  Each function of the     *)
(* file is an operator from a world [log, os] to the world it leaves.      *)
(***************************************************************************)
REPEATS_MIN == 3
REPEATS_MAX == 300

\* bounds of the logger model
MaxLogCalls == 3    \* calls of the logger's interface in one behaviour
MaxFaults == 1      \* system calls made to fail in one behaviour
MaxDepth == 3       \* nested direct_write_log_line calls the stack holds
SmallBuf == 34      \* io_buf.size of a buffer that holds one short line
LargeBuf == 70      \* io_buf.size of a buffer that holds two short lines

\* a null pointer to a string: no C string holds the byte 0
NULL == <<0>>

\* the texts the file uses, as bytes
MsgA == <<97>>
MsgB == <<98>>
FunctionF == <<102>>
FUNCTION_file_log_function ==
    <<102, 105, 108, 101, 95, 108, 111, 103, 95, 102, 117, 110, 99, 116, 105,
      111, 110>>
FUNCTION_close_log == <<99, 108, 111, 115, 101, 95, 108, 111, 103>>
FUNCTION_reopen_log == <<114, 101, 111, 112, 101, 110, 95, 108, 111, 103>>
LogFileReopened ==
    <<108, 111, 103, 32, 102, 105, 108, 101, 32, 114, 101, 111, 112, 101, 110,
      101, 100>>
LastMessageRepeated ==
    <<76, 97, 115, 116, 32, 109, 101, 115, 115, 97, 103, 101, 32, 114, 101,
      112, 101, 97, 116, 101, 100, 32>>
Times == <<32, 116, 105, 109, 101, 115>>
CannotWriteLogLine ==
    <<100, 105, 114, 101, 99, 116, 95, 119, 114, 105, 116, 101, 95, 108, 111,
      103, 95, 108, 105, 110, 101, 58, 32, 99, 97, 110, 110, 111, 116, 32,
      119, 114, 105, 116, 101, 32, 108, 111, 103, 32, 108, 105, 110, 101, 58,
      32>>

\* `%ud' of rspamd_snprintf: the decimal digits of n
RECURSIVE Decimal(_)
Decimal(n) ==
    IF n < 10 THEN <<48 + n>> ELSE Decimal(n \div 10) \o <<48 + (n % 10)>>

\* "Last message repeated %ud times"
RepeatedLine(repeats) == LastMessageRepeated \o Decimal(repeats) \o Times

\* guint32 values as two 16-bit halves
Half == 65536
Zero32 == [hi |-> 0, lo |-> 0]

Pow2(k) == 2 ^ k

\* hval << k in guint32
Shl32(h, k) ==
    IF k >= 16
    THEN [hi |-> (h.lo * Pow2(k - 16)) % Half, lo |-> 0]
    ELSE [hi |-> (h.hi * Pow2(k) + (h.lo * Pow2(k)) \div Half) % Half,
          lo |-> (h.lo * Pow2(k)) % Half]

\* a + b + c + d + e + f in guint32
Sum32(a, b, c, d, e, f) ==
    [hi |-> (a.hi + b.hi + c.hi + d.hi + e.hi + f.hi
               + ((a.lo + b.lo + c.lo + d.lo + e.lo + f.lo) \div Half)) % Half,
     lo |-> (a.lo + b.lo + c.lo + d.lo + e.lo + f.lo) % Half]

\* bit k of a ^ b, in its place
XorBit(a, b, k) == ((((a \div (2 ^ k)) + (b \div (2 ^ k))) % 2) * (2 ^ k))

\* a ^ b on the 8 low bits
XorBits(a, b) ==
    XorBit(a, b, 0) + XorBit(a, b, 1) + XorBit(a, b, 2) + XorBit(a, b, 3)
        + XorBit(a, b, 4) + XorBit(a, b, 5) + XorBit(a, b, 6) + XorBit(a, b, 7)

\* hval ^ (guint32)byte
Xor32(h, byte) ==
    [hi |-> h.hi, lo |-> (h.lo - (h.lo % 256)) + XorBits(h.lo % 256, byte)]

\* `hval += (hval<<1) + (hval<<4) + (hval<<7) + (hval<<8) + (hval<<24)'
CksumShifts(hval) ==
    Sum32(hval, Shl32(hval, 1), Shl32(hval, 4), Shl32(hval, 7),
          Shl32(hval, 8), Shl32(hval, 24))

\* hval after the loop of rspamd_log_calculate_cksum, entered with hval, has
\* read the bytes first .. last of message: those up to the middle one, then
\* the others
RECURSIVE CksumLoop(_, _, _, _)
CksumLoop(hval, message, first, last) ==
    IF hval.lo >= Half \/ first > last THEN hval
    ELSE IF first = last THEN Xor32(CksumShifts(hval), message[first])
    ELSE CksumLoop(CksumLoop(hval, message, first, (first + last) \div 2),
                   message, (first + last) \div 2 + 1, last)

rspamd_log_calculate_cksum(message) ==
    CksumLoop(Zero32, message, 1, Len(message))

\* GLogLevelFlags in the order of their values
LogLevels ==
    <<"G_LOG_LEVEL_ERROR", "G_LOG_LEVEL_CRITICAL", "G_LOG_LEVEL_WARNING",
      "G_LOG_LEVEL_MESSAGE", "G_LOG_LEVEL_INFO", "G_LOG_LEVEL_DEBUG">>

LevelValue(level) == CHOOSE i \in 1 .. Len(LogLevels) : LogLevels[i] = level

\* a <= b on log levels
LevelLeq(a, b) == LevelValue(a) <= LevelValue(b)

\* the classes of errno direct_write_log_line tells apart
Errnos == {"EBADF", "ENOSPC", "EPIPE", "EAGAIN"}

\* write(2) / writev(2) of data to rspamd_log->fd
SysWrite(W, data) ==
    LET scripted == IF W.os.script = <<>> THEN "ok" ELSE Head(W.os.script)
        errno == IF W.log.fd \notin W.os.open_fds THEN "EBADF" ELSE scripted
        os1 == [W.os EXCEPT !.script = IF @ = <<>> THEN @ ELSE Tail(@)]
    IN IF errno = "ok"
       THEN [w |-> [W EXCEPT !.os =
                      [os1 EXCEPT !.file = @ \o data,
                                  !.written_closed =
                                      @ \/ (os1.closed /\ data # <<>>)]],
             errno |-> "ok"]
       ELSE [w |-> [W EXCEPT !.os = [os1 EXCEPT !.failed = TRUE]],
             errno |-> errno]

\* open(2) of cfg->log_file: the lowest free descriptor, or -1
SysOpen(W) ==
    LET scripted == IF W.os.script = <<>> THEN "ok" ELSE Head(W.os.script)
        os1 == [W.os EXCEPT !.script = IF @ = <<>> THEN @ ELSE Tail(@)]
        fd == CHOOSE n \in 0 .. Cardinality(W.os.open_fds) :
                 /\ n \notin W.os.open_fds
                 /\ \A m \in 0 .. n - 1 : m \in W.os.open_fds
    IN IF scripted = "ok"
       THEN [os |-> [os1 EXCEPT !.open_fds = @ \cup {fd}], fd |-> fd]
       ELSE [os |-> [os1 EXCEPT !.failed = TRUE], fd |-> -1]

\* the line file_log_function hands to file_log_helper: its iov, with the
\* length of the prefix "%s #%P(%s) " or "%s #%P(%s) %s: " for a 19-byte
\* time, a one-digit pid and a four-byte process type
LogLine(cfg, function, message) ==
    LET colour == IF cfg.log_color THEN 7 ELSE 0
        r == colour + 29 + (IF function = NULL THEN 0 ELSE Len(function) + 2)
    IN [function |-> function, message |-> message,
        len |-> r + Len(message) + 1 + (IF cfg.log_color THEN 4 ELSE 0)]

\* `rspamd_log->repeats >= REPEATS_MIN && rspamd_log->repeats < REPEATS_MAX'
SuppressedFromMin(repeats) == repeats >= REPEATS_MIN /\ repeats < REPEATS_MAX

\* `rspamd_log->repeats > REPEATS_MIN && rspamd_log->repeats < REPEATS_MAX'
Suppressed(repeats) == repeats > REPEATS_MIN /\ repeats < REPEATS_MAX

\* `rspamd_log->io_buf.used >= rspamd_log->io_buf.size'
BufferFullWhenUsedUp(used, len, size) == used >= size

\* `rspamd_log->io_buf.used + len >= rspamd_log->io_buf.size'
BufferFull(used, len, size) == used + len >= size

fill_buffer(W, line) ==
    [W EXCEPT !.log.io_buf.buf = Append(@, line),
              !.log.io_buf.used = @ + line.len,
              !.os.fills = Append(@, [used |-> W.log.io_buf.used,
                                      len |-> line.len,
                                      size |-> W.log.io_buf.size])]

RECURSIVE direct_write_log_line(_, _)
RECURSIVE WriteFailed(_, _)
RECURSIVE AfterReopen(_, _)
RECURSIVE RetryWrite(_, _)
RECURSIVE flush_log_buf(_)
RECURSIVE file_log_helper(_, _)
RECURSIVE HelperWrites(_, _)
RECURSIVE file_log_function(_, _, _, _, _)
RECURSIVE SameLine(_, _, _, _, _)
RECURSIVE OtherLine(_, _, _, _, _)
RECURSIVE LogSaved(_, _, _)
RECURSIVE LogRepeated(_, _, _, _)
RECURSIVE syslog_log_function(_, _, _, _, _)
RECURSIVE rspamd_common_log_function(_, _, _, _)
RECURSIVE open_log(_)
RECURSIVE close_log(_)
RECURSIVE CloseFlushed(_)
RECURSIVE reopen_log(_)
RECURSIVE Reopened(_)

\* the line `r = snprintf (errmsg, ...)' has write(2) send
ErrmsgLine ==
    <<[function |-> NULL, message |-> CannotWriteLogLine,
       len |-> Len(CannotWriteLogLine)]>>

\* all that a call of direct_write_log_line and the calls it makes read: the
\* logger structure, the data, the descriptors and the outcomes to come
Entered(W, data) ==
    [log |-> W.log, data |-> data, open_fds |-> W.os.open_fds,
     script |-> W.os.script]

\* a call of direct_write_log_line that has not returned was entered with
\* the same structure, data, descriptors and outcomes: so will the next be
Reentered(W, data) ==
    \E i \in 1 .. Len(W.os.active) : W.os.active[i] = Entered(W, data)

\* data is what the call was given to write: the iov of one line, or the
\* first io_buf.used bytes of the buffer.  A call entered as a call below
\* it on the stack was recurses for ever, and a call that finds MaxDepth
\* calls of itself on the stack exhausts the stack.
direct_write_log_line(W, data) ==
    CASE W.os.overflow \/ ~W.log.enabled -> W
      [] ~W.os.overflow /\ W.log.enabled /\ Reentered(W, data) ->
           [W EXCEPT !.os.overflow = TRUE, !.os.reentered = TRUE]
      [] /\ ~W.os.overflow /\ W.log.enabled /\ ~Reentered(W, data)
         /\ W.os.depth >= MaxDepth ->
           [W EXCEPT !.os.overflow = TRUE]
      [] OTHER ->
           [WriteFailed(SysWrite([W EXCEPT !.os.depth = @ + 1,
                                           !.os.active =
                                               Append(@, Entered(W, data))],
                                 data), data)
              EXCEPT !.os.depth = @ - 1,
                     !.os.active = SubSeq(@, 1, Len(@) - 1)]

\* `if (r == -1)' and the switch on errno after it; wr is what the write
\* returned
WriteFailed(wr, data) ==
    CASE wr.errno = "ok" -> [wr.w EXCEPT !.log.throttling = FALSE]
      [] wr.errno = "EBADF" -> AfterReopen(reopen_log(wr.w).w, data)
      [] wr.errno = "ENOSPC" ->
           [wr.w EXCEPT !.log.throttling = TRUE,
                        !.log.throttling_time = wr.w.os.now]
      [] wr.errno = "EPIPE" -> [wr.w EXCEPT !.log.enabled = FALSE]
      [] OTHER -> wr.w

\* `if (write (rspamd_log->fd, errmsg, r) != -1)' once reopen_log returned re
AfterReopen(re, data) ==
    IF re.os.overflow THEN re ELSE RetryWrite(SysWrite(re, ErrmsgLine), data)

\* `direct_write_log_line (data, count, is_iov);', the try again
RetryWrite(er, data) ==
    IF er.errno = "ok" THEN direct_write_log_line(er.w, data) ELSE er.w

\* `rspamd_log->fd = open (...)': o is what open(2) returned
WithFd(e, o) ==
    [w |-> [e EXCEPT !.log.fd = o.fd, !.os = o.os],
     ret |-> IF o.fd = -1 THEN -1 ELSE 0]

\* the switch of open_log on cfg->log_type, enabled being set
OpenByType(e) ==
    CASE e.log.cfg.log_type = "RSPAMD_LOG_CONSOLE" -> [w |-> e, ret |-> 0]
      [] e.log.cfg.log_type = "RSPAMD_LOG_SYSLOG" -> [w |-> e, ret |-> 0]
      [] e.log.cfg.log_type = "RSPAMD_LOG_FILE" -> WithFd(e, SysOpen(e))

\* returns the world and the value returned
open_log(W) ==
    OpenByType([W EXCEPT !.log.enabled = TRUE, !.os.closed = FALSE])

\* `file_log_function (NULL, <function>, rspamd_log->cfg->log_level,
\* <message>, TRUE, NULL)', as close_log calls it
LogForced(W, function, message) ==
    file_log_function(W, function, W.log.cfg.log_level, message, TRUE)

\* `if (rspamd_log->saved_message)' of close_log, repeats being zeroed
CloseSaved(z) ==
    IF z.log.saved_message # NULL
    THEN [LogForced(z, z.log.saved_function, z.log.saved_message)
            EXCEPT !.log.saved_message = NULL, !.log.saved_function = NULL]
    ELSE z

\* close_log after its flush_log_buf: fsync(2) and close(2) are taken to
\* succeed on an open descriptor
CloseFlushed(f) ==
    IF f.log.type = "RSPAMD_LOG_FILE" /\ f.log.enabled
    THEN IF f.log.repeats > REPEATS_MIN
         THEN [LogForced(CloseSaved([f EXCEPT !.log.repeats = 0]),
                         FUNCTION_close_log, RepeatedLine(f.log.repeats))
                 EXCEPT !.os.closed = TRUE]
         ELSE [f EXCEPT !.log.enabled = FALSE, !.os.closed = TRUE,
                        !.os.open_fds = @ \ {f.log.fd}]
    ELSE [f EXCEPT !.log.enabled = FALSE, !.os.closed = TRUE]

close_log(W) == CloseFlushed(flush_log_buf(W))

\* `if (open_log () == 0)' of reopen_log: o is what open_log returned
Reopened(o) ==
    IF o.ret = 0
    THEN [w |-> rspamd_common_log_function(o.w, "G_LOG_LEVEL_INFO",
                                           FUNCTION_reopen_log,
                                           LogFileReopened),
          ret |-> 0]
    ELSE [w |-> o.w, ret |-> -1]

reopen_log(W) == Reopened(open_log(close_log(W)))

flush_log_buf(W) ==
    IF /\ W.log.is_buffered
       /\ W.log.type \in {"RSPAMD_LOG_CONSOLE", "RSPAMD_LOG_FILE"}
    THEN [direct_write_log_line(W, W.log.io_buf.buf)
            EXCEPT !.log.io_buf.used = 0, !.log.io_buf.buf = <<>>]
    ELSE W

\* the messages logged are printable, which rspamd_escape_string leaves as
\* they are
rspamd_common_log_function(W, log_level, function, message) ==
    CASE ~LevelLeq(log_level, W.log.cfg.log_level) -> W
      [] /\ LevelLeq(log_level, W.log.cfg.log_level)
         /\ W.log.type = "RSPAMD_LOG_SYSLOG" ->
           syslog_log_function(W, function, log_level, message, FALSE)
      [] OTHER -> file_log_function(W, function, log_level, message, FALSE)

\* the branches of file_log_helper, the line being recorded as emitted
HelperWrites(h, line) ==
    CASE ~h.log.is_buffered -> direct_write_log_line(h, <<line>>)
      [] h.log.is_buffered /\ h.log.io_buf.size < line.len ->
           direct_write_log_line(flush_log_buf(h), <<line>>)
      [] /\ h.log.is_buffered
         /\ h.log.io_buf.size >= line.len
         /\ BufferFull(h.log.io_buf.used, line.len, h.log.io_buf.size) ->
           fill_buffer(flush_log_buf(h), line)
      [] OTHER -> fill_buffer(h, line)

file_log_helper(W, line) ==
    HelperWrites([W EXCEPT !.os.lines = Append(@, line),
                           !.os.written_closed = @ \/ W.os.closed], line)

syslog_log_function(W, function, log_level, message, forced) ==
    IF ~W.log.enabled THEN W
    ELSE IF /\ forced \/ LevelLeq(log_level, W.log.cfg.log_level)
            /\ \/ function = NULL /\ forced
               \/ LevelLeq("G_LOG_LEVEL_CRITICAL", log_level)
    THEN [W EXCEPT !.os.syslog =
                      Append(@, [function |-> function, message |-> message]),
                   !.os.written_closed = @ \/ W.os.closed]
    ELSE W

\* `if (rspamd_log->throttling)' past the return: throttling_time = now
Throttled(W) ==
    IF W.log.throttling THEN [W EXCEPT !.log.throttling_time = W.os.now] ELSE W

\* `if (rspamd_log->saved_message)' of file_log_function, repeats being
\* zeroed: the saved message is logged
LogSaved(z, log_level, forced) ==
    IF z.log.saved_message # NULL
    THEN file_log_function(z, z.log.saved_function, log_level,
                           z.log.saved_message, forced)
    ELSE z

\* the saved message and "Last message repeated %ud times" are logged; free
\* says whether saved_message and saved_function are set to NULL
LogRepeated(n, log_level, forced, free) ==
    file_log_function(
        IF free
        THEN [LogSaved([n EXCEPT !.log.repeats = 0], log_level, forced)
                EXCEPT !.log.saved_message =
                           IF n.log.saved_message # NULL THEN NULL ELSE @,
                       !.log.saved_function =
                           IF n.log.saved_message # NULL THEN NULL ELSE @]
        ELSE LogSaved([n EXCEPT !.log.repeats = 0], log_level, forced),
        FUNCTION_file_log_function, log_level,
        RepeatedLine(n.log.repeats), forced)

\* `if (cksum == rspamd_log->last_line_cksum)': r has counted the repeat
SameLine(r, function, log_level, message, forced) ==
    CASE Suppressed(r.log.repeats) /\ r.log.saved_message = NULL ->
           [r EXCEPT !.log.saved_message = message,
                     !.log.saved_function = function]
      [] Suppressed(r.log.repeats) /\ r.log.saved_message # NULL -> r
      [] ~Suppressed(r.log.repeats) /\ r.log.repeats > REPEATS_MAX ->
           [file_log_function(LogRepeated(r, log_level, forced, FALSE),
                              function, log_level, message, forced)
              EXCEPT !.log.repeats = REPEATS_MIN + 1]
      [] OTHER -> file_log_helper(r, LogLine(r.log.cfg, function, message))

\* its else: n has stored the new checksum
OtherLine(n, function, log_level, message, forced) ==
    IF n.log.repeats > REPEATS_MIN
    THEN file_log_function(LogRepeated(n, log_level, forced, TRUE),
                           function, log_level, message, forced)
    ELSE file_log_helper([n EXCEPT !.log.repeats = 0],
                         LogLine(n.log.cfg, function, message))

\* file_log_function past its early returns; cksum is the message's
CompareCksum(t, cksum, function, log_level, message, forced) ==
    IF cksum = t.log.last_line_cksum
    THEN SameLine([t EXCEPT !.log.repeats = @ + 1], function, log_level,
                  message, forced)
    ELSE OtherLine([t EXCEPT !.log.last_line_cksum = cksum], function,
                   log_level, message, forced)

file_log_function(W, function, log_level, message, forced) ==
    CASE ~W.log.enabled -> W
      [] ~(forced \/ LevelLeq(log_level, W.log.cfg.log_level)) -> W
      [] W.log.throttling /\ W.log.throttling_time = W.os.now -> W
      [] OTHER ->
           CompareCksum(Throttled(W), rspamd_log_calculate_cksum(message),
                        function, log_level, message, forced)

\* rspamd_log after rspamd_set_logger (type, ptype, cfg) on a zeroed structure
NewLogger(type, buffered, size, color) ==
    [type |-> type,
     cfg |-> [log_type |-> type, log_level |-> "G_LOG_LEVEL_INFO",
              log_color |-> color],
     io_buf |-> [size |-> IF buffered THEN size ELSE 0, used |-> 0, buf |-> <<>>],
     fd |-> IF type = "RSPAMD_LOG_CONSOLE" THEN 2 ELSE 0,
     is_buffered |-> buffered,
     enabled |-> FALSE,
     throttling |-> FALSE,
     throttling_time |-> 0,
     last_line_cksum |-> Zero32,
     repeats |-> 0,
     saved_message |-> NULL,
     saved_function |-> NULL]

\* rspamd_log after open_log, repeats + 1 calls that logged MsgA, and a flush
RepeatingLogger(logger, repeats) ==
    [logger EXCEPT
        !.enabled = TRUE,
        !.fd = 3,
        !.last_line_cksum = rspamd_log_calculate_cksum(MsgA),
        !.repeats = repeats,
        !.saved_message = IF repeats > REPEATS_MIN THEN MsgA ELSE NULL,
        !.saved_function = IF repeats > REPEATS_MIN THEN FunctionF ELSE NULL]

\* the call of the interface made last, and what it was asked to log
Called(op, log_level, message) ==
    [op |-> op, log_level |-> log_level, message |-> message]

NoCall == Called("none", "none", NULL)

\* the descriptors a process starts with
StdFds == {0, 1, 2}

NewOs ==
    [file |-> <<>>, open_fds |-> StdFds, syslog |-> <<>>, lines |-> <<>>,
     fills |-> <<>>, script |-> <<>>, failed |-> FALSE, depth |-> 0,
     overflow |-> FALSE, active |-> <<>>, reentered |-> FALSE,
     now |-> 0, closed |-> FALSE,
     written_closed |-> FALSE, last |-> NoCall,
     steps |-> 0, faults |-> 0]

\* before rspamd_set_logger: `rspamd_logger_t *rspamd_log = NULL'
NoLogger == [type |-> "none"]

NoLog ==
    /\ rspamd_log = NoLogger
    /\ log_os = NewOs

(***************************************************************************)
(* Inputs and specifications                                               *)
(***************************************************************************)
SeqsUpTo(S, n) == UNION {[1 .. k -> S] : k \in 0 .. n}

RECURSIVE Rep(_, _)
Rep(s, k) == IF k = 0 THEN <<>> ELSE s \o Rep(s, k - 1)

\* one representative of every token class the consumers tell apart
Alphabet ==
    {"whitespace", "ident", "comma", "semicolon", "cdo", "ocurlbrace",
     "ecurlbrace", "obrace", "ebrace", "osqbrace", "esqbrace", "function",
     "at_keyword"}

\* the token classes met in a declaration block
BodyAlphabet ==
    {"whitespace", "ident", "comma", "semicolon", "ecurlbrace", "ebrace",
     "function", "at_keyword"}

\* the start of a qualified rule: a preamble component and the `{' of its block
RuleStart == <<"ident", "ocurlbrace">>

\* `p { color: red }'
SimpleRule ==
    <<"ident", "whitespace", "ocurlbrace", "whitespace", "ident", "delim",
      "whitespace", "ident", "whitespace", "ecurlbrace">>

\* `* { color: hsl(0, 100%, 50%) !important }'
HslRule ==
    <<"delim", "whitespace", "ocurlbrace", "whitespace", "ident", "delim",
      "whitespace", "function", "number", "comma", "whitespace", "percentage",
      "comma", "whitespace", "percentage", "ebrace", "whitespace", "delim",
      "ident", "whitespace", "ecurlbrace">>

\* `<!-- p { x: 1 } -->'
CommentedRule ==
    <<"cdo", "whitespace", "ident", "whitespace", "ocurlbrace", "whitespace",
      "ident", "delim", "whitespace", "number", "whitespace", "ecurlbrace",
      "whitespace", "cdc">>

\* `@media print { p { x: 1 } }'
MediaRule ==
    <<"at_keyword", "whitespace", "ident", "whitespace", "ocurlbrace",
      "whitespace", "ident", "whitespace", "ocurlbrace", "whitespace", "ident",
      "delim", "whitespace", "number", "whitespace", "ecurlbrace", "whitespace",
      "ecurlbrace">>

\* `a[href] { x: 1 }'
AttributeRule ==
    <<"ident", "osqbrace", "ident", "esqbrace", "whitespace", "ocurlbrace",
      "whitespace", "ident", "delim", "whitespace", "number", "whitespace",
      "ecurlbrace">>

\* style sheets of the kind the unit tests parse, token by token
Scenarios == {SimpleRule, HslRule, CommentedRule, MediaRule, AttributeRule}

\* every input of up to MaxLen tokens, every rule body of up to MaxLen
\* tokens, and the scenarios
ShortInputs ==
    SeqsUpTo(Alphabet, MaxLen)
        \cup {RuleStart \o s : s \in SeqsUpTo(BodyAlphabet, MaxLen)}
        \cup Scenarios

Openers == {"ocurlbrace", "obrace"}
Preambles == {<<>>, <<"ident">>, <<"at_keyword">>}
NestAlphabet == {"ident", "function", "ebrace"}
CompleteRule == <<"ident", "ocurlbrace", "ecurlbrace">>

\* a run of open brackets around max_rec deep, after an optional complete
\* rule and an optional preamble, and before a few free tokens
NestedInputs ==
    {prev \o pre \o Rep(<<o>>, n) \o tail :
        prev \in {<<>>, CompleteRule}, pre \in Preambles, o \in Openers,
        n \in (max_rec - NestBelow) .. (max_rec + 1),
        tail \in SeqsUpTo(NestAlphabet, MaxTail)}

InitWith(inputs) ==
    /\ input \in inputs
    /\ tokeniser = [pos |-> 0, backlog |-> <<>>]
    /\ stack = <<DriverFrame>>
    /\ rec_level = 0
    /\ eof = FALSE
    /\ error = "none"
    /\ style_object = NoSheet
    /\ pc = "consume_css_blocks"
    /\ rules_it = 0
    /\ consume_ok = FALSE
    /\ result = NoResult
    /\ attach_failed = FALSE
    /\ tripped = NoTrip
    /\ calls = <<>>
    /\ blocks_gen = NoFunctor

Init == InitWith(ShortInputs) /\ NoLog
InitNest == InitWith(NestedInputs) /\ NoLog

Next ==
    \/ Iter_consume_css_blocks
    \/ Exit_consume_css_blocks
    \/ Enter_qualified_rule_consumer
    \/ Iter_qualified_rule_consumer
    \/ Exit_qualified_rule_consumer
    \/ Enter_at_rule_consumer
    \/ Iter_at_rule_consumer
    \/ Exit_at_rule_consumer
    \/ Enter_simple_block_consumer
    \/ Iter_simple_block_consumer
    \/ Exit_simple_block_consumer
    \/ Enter_component_value_consumer
    \/ Iter_component_value_consumer
    \/ Exit_component_value_consumer
    \/ Enter_function_consumer
    \/ Iter_function_consumer
    \/ Exit_function_consumer
    \/ Begin_consume_input
    \/ Rule_consume_input
    \/ End_consume_input
    \/ Return_parse_css
    \/ Return_get_selectors_parser_functor
    \/ Call_blocks_gen_functor

InitAll == InitWith(ShortInputs \cup NestedInputs) /\ NoLog

(***************************************************************************)
(* css_consumed_block on its own: the two attachment operations applied to *)
(* blocks of every content shape.  stack[1].block is the block operated    *)
(* on, pc the operation called last, attach_failed what it returned.       *)
(***************************************************************************)
BlockSamples ==
    {NewBlock(t) : t \in ListTags}
        \cup {css_parser_eof_block}
        \cup {NewTokenBlock(t, Token("ident", 1)) : t \in {"component", "function_arg"}}
        \cup {NewTokenBlock("function", Token("function", 1))}

ChildSamples ==
    {NewTokenBlock("component", Token("ident", 2)),
     NewTokenBlock("function_arg", Token("ident", 2)),
     NewBlock("simple_block")}

InitBlocks ==
    /\ input = <<>>
    /\ tokeniser = [pos |-> 0, backlog |-> <<>>]
    /\ \E b \in BlockSamples : stack = <<[DriverFrame EXCEPT !.block = b]>>
    /\ rec_level = 0
    /\ eof = FALSE
    /\ error = "none"
    /\ style_object = NoSheet
    /\ pc = "css_consumed_block"
    /\ NoLog
    /\ rules_it = 0
    /\ consume_ok = FALSE
    /\ result = NoResult
    /\ attach_failed = FALSE
    /\ tripped = NoTrip
    /\ calls = <<>>
    /\ blocks_gen = NoFunctor

BlockPcs == {"css_consumed_block", "attach_block", "add_function_argument"}

BlocksUnchanged ==
    UNCHANGED <<input, tokeniser, rec_level, eof, error, style_object, rules_it,
                consume_ok, result, tripped, calls, blocks_gen,
                   rspamd_log, log_os>>

Call_attach_block ==
    /\ pc \in BlockPcs
    /\ Len(stack[1].block.blocks) < MaxAttach
    /\ \E child \in ChildSamples :
         LET r == attach_block(stack[1].block, child)
         IN /\ stack' = <<[stack[1] EXCEPT !.block = r.node]>>
            /\ attach_failed' = ~r.ok
    /\ pc' = "attach_block"
    /\ BlocksUnchanged

Call_add_function_argument ==
    /\ pc \in BlockPcs
    /\ Len(stack[1].block.blocks) < MaxAttach
    /\ \E child \in ChildSamples :
         LET r == add_function_argument(stack[1].block, child)
         IN /\ stack' = <<[stack[1] EXCEPT !.block = r.node]>>
            /\ attach_failed' = ~r.ok
    /\ pc' = "add_function_argument"
    /\ BlocksUnchanged

NextBlocks ==
    \/ Call_attach_block
    \/ Call_add_function_argument

SpecBlocks == InitBlocks /\ [][NextBlocks]_vars

Spec == Init /\ [][Next]_vars
SpecNest == InitNest /\ [][Next]_vars
SpecAll == InitAll /\ [][Next]_vars

(***************************************************************************)
(* The logger's specification: the calls of its interface                  *)
(***************************************************************************)
FileLoggers ==
    {NewLogger("RSPAMD_LOG_FILE", FALSE, 0, FALSE)}
        \cup {NewLogger("RSPAMD_LOG_FILE", TRUE, size, FALSE) :
                 size \in {SmallBuf, LargeBuf}}

StartRepeats == {REPEATS_MIN - 1, REPEATS_MAX - 2}

InitLog ==
    /\ InitWith({<<>>})
    /\ \/ /\ rspamd_log \in
               FileLoggers
                  \cup {NewLogger("RSPAMD_LOG_CONSOLE", FALSE, 0, TRUE),
                        NewLogger("RSPAMD_LOG_SYSLOG", FALSE, 0, FALSE)}
          /\ log_os = NewOs
       \/ /\ rspamd_log \in
               {RepeatingLogger(l, r) : l \in FileLoggers, r \in StartRepeats}
          /\ log_os = [NewOs EXCEPT !.open_fds = @ \cup {3}]

CssVars ==
    <<input, tokeniser, stack, rec_level, eof, error, style_object, pc,
      rules_it, consume_ok, result, attach_failed, tripped, calls, blocks_gen>>

\* the system calls of one call of the interface that fail, and how
Scripts ==
    {<<>>} \cup (IF log_os.faults < MaxFaults
                 THEN {<<e>> : e \in Errnos}
                 ELSE {})

World(script) ==
    [log |-> rspamd_log, os |-> [log_os EXCEPT !.script = script]]

CanCall ==
    /\ rspamd_log # NoLogger
    /\ ~log_os.overflow
    /\ log_os.steps < MaxLogCalls

Returns(call, script, w) ==
    /\ rspamd_log' = w.log
    /\ log_os' = [w.os EXCEPT !.last = call,
                              !.steps = @ + 1,
                              !.script = <<>>,
                              !.faults = @ + Len(script) - Len(w.os.script)]
    /\ UNCHANGED CssVars

Call_open_log ==
    /\ CanCall
    /\ \E script \in Scripts :
         Returns(Called("open_log", "none", NULL), script, open_log(World(script)).w)

Call_close_log ==
    /\ CanCall
    /\ \E script \in Scripts :
         Returns(Called("close_log", "none", NULL), script, close_log(World(script)))

Call_reopen_log ==
    /\ CanCall
    /\ \E script \in Scripts :
         Returns(Called("reopen_log", "none", NULL), script, reopen_log(World(script)).w)

Call_flush_log_buf ==
    /\ CanCall
    /\ \E script \in Scripts :
         Returns(Called("flush_log_buf", "none", NULL), script, flush_log_buf(World(script)))

LoggedLevels == {"G_LOG_LEVEL_INFO", "G_LOG_LEVEL_DEBUG"}

Call_rspamd_common_log_function ==
    /\ CanCall
    /\ \E script \in Scripts, log_level \in LoggedLevels,
          message \in {MsgA, MsgB} :
         Returns(Called("rspamd_common_log_function", log_level, message),
                 script,
                 rspamd_common_log_function(World(script), log_level,
                                            FunctionF, message))

\* time (NULL) moves on; the file reads it only while throttling
Tick ==
    /\ rspamd_log # NoLogger
    /\ rspamd_log.throttling
    /\ log_os.now = 0
    /\ log_os' = [log_os EXCEPT !.now = 1]
    /\ UNCHANGED rspamd_log
    /\ UNCHANGED CssVars

NextLog ==
    \/ Call_open_log
    \/ Call_close_log
    \/ Call_reopen_log
    \/ Call_flush_log_buf
    \/ Call_rspamd_common_log_function
    \/ Tick

SpecLog == InitLog /\ [][NextLog]_vars

\* the consumer is synchronous and single-threaded: a call that can take a
\* step takes it
FairSpec == Init /\ [][Next]_vars /\ WF_vars(Next)
FairSpecNest == InitNest /\ [][Next]_vars /\ WF_vars(Next)

(***************************************************************************)
(* Measures on trees                                                       *)
(***************************************************************************)
MaxOf(S) == CHOOSE m \in S : \A x \in S : x <= m

\* depth of the deepest node under node, node itself being at 0
RECURSIVE TreeDepth(_)
TreeDepth(node) ==
    IF node.blocks = <<>> THEN 0
    ELSE 1 + MaxOf({TreeDepth(node.blocks[i]) : i \in 1 .. Len(node.blocks)})

RECURSIVE SumTo(_, _)
SumTo(f, n) == IF n = 0 THEN 0 ELSE f[n] + SumTo(f, n - 1)

RECURSIVE NodeCount(_)
NodeCount(node) ==
    1 + SumTo([i \in 1 .. Len(node.blocks) |-> NodeCount(node.blocks[i])],
              Len(node.blocks))

Returned == pc # "consume_css_blocks"

Children == get_blocks_or_empty(consumed_blocks)

GuardTripped == error = "BAD_NESTING"

\* the deepest block a running consumer is building, attached or not
BuildDepth ==
    MaxOf({BlockDepth(stack, i) + TreeDepth(stack[i].block) :
              i \in {j \in 1 .. Len(stack) : stack[j].block # NoBlock}})

\* every function node of the tree, node lying at depth d, lies above depth lim
RECURSIVE FunctionsAbove(_, _, _)
FunctionsAbove(node, d, lim) ==
    /\ node.tag = "function" => d < lim
    /\ \A i \in 1 .. Len(node.blocks) : FunctionsAbove(node.blocks[i], d + 1, lim)

(***************************************************************************)
(* C1: no node of the tree consume_css_blocks returns lies deeper than 20  *)
(* (max_rec), the top node being at depth 0 and function arguments one     *)
(* deeper than their function node.                                        *)
(***************************************************************************)
C1_BoundedDepth == Returned => TreeDepth(consumed_blocks) <= max_rec

C1_Witness == pc = "done" /\ TreeDepth(consumed_blocks) = max_rec

(***************************************************************************)
(* C2: when the recursion guard tripped and no top-level rule was attached *)
(* to top, parse_css returns an error of kind BAD_NESTING.                 *)
(***************************************************************************)
C2_BadNestingReported ==
    (pc = "done" /\ GuardTripped /\ Children = <<>>)
        => (result.kind = "error" /\ result.error = "BAD_NESTING")

(***************************************************************************)
(* C3 as stated: parse_css reports INVALID_SYNTAX when top has no children *)
(* and also when top has children but the assembler added no association.  *)
(***************************************************************************)
C3_InvalidSyntaxBothCases ==
    (pc = "done" /\ (Children = <<>> \/ style_object.rules = <<>>))
        => (result.kind = "error" /\ result.error = "INVALID_SYNTAX")

(***************************************************************************)
(* C3 as amended: parse_css reports INVALID_SYNTAX exactly when top has no *)
(* children; when top has children and the assembler added no association  *)
(* it returns an empty style sheet.                                        *)
(***************************************************************************)
C3_InvalidSyntaxIffEmptyTop ==
    pc = "done" =>
        /\ (result.kind = "error" /\ result.error = "INVALID_SYNTAX") <=> Children = <<>>
        /\ (Children # <<>> /\ style_object.rules = <<>>)
              => (result.kind = "sheet" /\ result.sheet.rules = <<>>)

C3_Witness ==
    /\ pc = "done"
    /\ input = <<"at_keyword", "ident", "semicolon">>
    /\ Len(Children) = 1 /\ Children[1].tag = "at_rule"
    /\ result.kind = "sheet" /\ result.sheet.rules = <<>>

(***************************************************************************)
(* C4: parse_css returns a style sheet, possibly empty, for every input    *)
(* from which the consumer attached at least one top-level rule to top.    *)
(***************************************************************************)
C4_SheetWhenRuleAttached ==
    (pc = "done" /\ Children # <<>>)
        => (result.kind = "sheet" /\ result.sheet = style_object)

\* a rule with a preamble and an unclosed block holding a function value
C4_Witness ==
    /\ pc = "done"
    /\ input = <<"ident", "ocurlbrace", "function", "ident", "ebrace">>
    /\ Len(Children) = 1 /\ Children[1].tag = "qualified_rule"
    /\ Children[1].blocks[2].blocks[1].tag = "function"
    /\ result.kind = "sheet"

(***************************************************************************)
(* C5: consume_css_blocks terminates and returns a node tagged top, also   *)
(* when the guard tripped; every loop iteration of every consumer leaves   *)
(* the loop or leaves more tokens consumed than there were when it began.  *)
(***************************************************************************)
LoopOf(f) ==
    CASE f.fn = "consume_css_blocks" -> DriverLoop(f.ret, eof)
      [] f.fn = "qualified_rule_consumer" -> QrcLoop(f.ret, f.more, eof)
      [] f.fn = "at_rule_consumer" -> ArcLoop(f.ret, f.more, eof)
      [] f.fn = "simple_block_consumer" -> SbcLoop(f.ret, f.more, eof)
      [] f.fn = "component_value_consumer" -> CvcLoop(f.ret, f.more, eof)
      [] OTHER -> FcLoop(f.ret, f.more, eof)

IterationProgress ==
    (pc = "consume_css_blocks" /\ Cur.pc = "loop" /\ Cur.mark # -1)
        => (~LoopOf(Cur) \/ NetConsumed > Cur.mark)

C5_Terminates ==
    /\ [](IterationProgress)
    /\ <>(Returned /\ consumed_blocks.tag = "top")

C5_Witness ==
    /\ Returned /\ consumed_blocks.tag = "top" /\ GuardTripped
    /\ tokeniser.pos < Len(input)

(***************************************************************************)
(* C6: once the guard has tripped (BAD_NESTING recorded), every consumer   *)
(* returns false up to the driver, no loop runs another iteration, and no  *)
(* return attaches a node to any block still under construction.           *)
(***************************************************************************)
C6_FailurePropagates ==
    [][(pc = "consume_css_blocks" /\ error' = "BAD_NESTING") =>
          /\ Len(stack') <= Len(stack)
          /\ Len(stack') < Len(stack) =>
                /\ ~stack'[Len(stack')].ret
                /\ \A i \in 1 .. Len(stack') : stack'[i].block = stack[i].block
          /\ Len(stack') = Len(stack) =>
                /\ Len(stack) = 1 /\ stack' = stack
                /\ pc' \in {"consume_input", "blocks_gen_functor"}]_vars

C6_Witness ==
    /\ pc = "consume_input" /\ GuardTripped
    /\ ~stack[1].ret
    /\ tripped.fn = "component_value_consumer"
    /\ input[1] = "at_keyword"
    /\ Children = <<>>

(***************************************************************************)
(* C7: the recursion counter is balanced on every path, so it is 0 when    *)
(* consume_css_blocks returns, for any input.                              *)
(***************************************************************************)
C7_CounterBalanced == Returned => rec_level = 0

(***************************************************************************)
(* C8 as stated: the guard trips only if consuming the input would create  *)
(* a node deeper than 20; an input whose nodes, function nodes with or     *)
(* without arguments included, all lie at depth 20 or less is consumed     *)
(* without error.                                                          *)
(***************************************************************************)
\* a token from input[i] on becomes a function argument before `)' or eof
RECURSIVE FunctionArgAhead(_)
FunctionArgAhead(i) ==
    IF i > Len(input) THEN FALSE
    ELSE CASE FcBranch(input[i]) = "arg" -> TRUE
           [] FcBranch(input[i]) = "end" -> FALSE
           [] OTHER -> FunctionArgAhead(i + 1)

\* the consumer the guard cut off would have built a node under its `top'
TripWouldCreate ==
    IF tripped.fn = "function_consumer" THEN FunctionArgAhead(tripped.pos + 1)
    ELSE TRUE

Counts(f) == f.fn # "simple_block_consumer" \/ SbcCounts(f.consume_current)

ShapeFor(tag) ==
    CASE tag \in ListTags -> "list"
      [] tag = "function" -> "function"
      [] OTHER -> "token"

RECURSIVE WellShaped(_)
WellShaped(node) ==
    /\ node.tag \in ListTags \cup {"function", "function_arg", "component"}
    /\ node.shape = ShapeFor(node.tag)
    /\ node.shape = "token" => (node.blocks = <<>> /\ node.token # NoToken)
    /\ node.shape = "function" => node.token.type = "function"
    /\ node.shape = "list" => node.token = NoToken
    /\ \A i \in 1 .. Len(node.blocks) :
          /\ WellShaped(node.blocks[i])
          /\ node.blocks[i].tag = "function_arg" <=> node.tag = "function"

C9_ShapeMatchesTag ==
    /\ \A i \in 1 .. Len(stack) :
          stack[i].block = NoBlock \/ WellShaped(stack[i].block)
    /\ ~attach_failed

RECURSIVE HasTag(_, _)
HasTag(node, tag) ==
    \/ node.tag = tag
    \/ \E i \in 1 .. Len(node.blocks) : HasTag(node.blocks[i], tag)

C9_Witness ==
    /\ pc = "done"
    /\ HasTag(consumed_blocks, "function_arg")
    /\ HasTag(consumed_blocks, "at_rule")

CdTypes == {"cdo", "cdc"}

\* the nodes of the tree under node that carry a token: [tag, type, pos]
RECURSIVE TokenNodes(_)
TokenNodes(node) ==
    (IF node.token = NoToken THEN {}
     ELSE {[tag |-> node.tag, type |-> node.token.type, pos |-> node.token.pos]})
        \cup UNION {TokenNodes(node.blocks[i]) : i \in 1 .. Len(node.blocks)}

\* s is one qualified rule, an ident preamble and a flat `{...}' block, with
\* cdo/cdc tokens before it and after it
CdAroundRule(s) ==
    \E i, o, j \in 1 .. Len(s) :
       /\ i < o /\ o < j
       /\ s[i] = "ident" /\ s[o] = "ocurlbrace" /\ s[j] = "ecurlbrace"
       /\ \A k \in 1 .. Len(s) :
             /\ (k < i \/ k > j) => s[k] \in CdTypes \cup {"whitespace"}
             /\ (i < k /\ k < o) => s[k] \in {"ident", "whitespace"}
             /\ (o < k /\ k < j) =>
                    s[k] \in {"ident", "whitespace", "delim", "number"}
       /\ \E k \in 1 .. i - 1 : s[k] \in CdTypes
       /\ \E k \in j + 1 .. Len(s) : s[k] \in CdTypes

(***************************************************************************)
(* C11: for an input made of one qualified rule (a preamble and a `{...}'  *)
(* block) with cdo/cdc tokens before and after it, the top node returned   *)
(* has exactly one child, tagged qualified_rule, and the tree carries no   *)
(* cdo/cdc token: the tree of the input without them.                      *)
(***************************************************************************)
C11_CdoCdcStrippedAtTop ==
    (Returned /\ CdAroundRule(input)) =>
        /\ Len(Children) = 1
        /\ Children[1].tag = "qualified_rule"
        /\ \A n \in TokenNodes(consumed_blocks) : n.type \notin CdTypes

(***************************************************************************)
(* C12: the rule assembler ignores at-rule children: for no direct child   *)
(* of top tagged at_rule, whatever its children, is the selector parser or *)
(* the declaration parser invoked, and none adds a rule to the style sheet.*)
(***************************************************************************)
C12_AtRulesIgnored ==
    /\ \A k \in 1 .. Len(calls) : Children[calls[k].rule].tag # "at_rule"
    /\ \A k \in 1 .. Len(style_object.rules) :
          Children[style_object.rules[k].rule].tag # "at_rule"

(***************************************************************************)
(* C13 as stated: for every rule the assembler processes, the block whose children   *)
(* are fed to the declaration parser is the rule's trailing child, its     *)
(* `{...}' block, and the selector preamble is every child before that     *)
(* block, also when the preamble holds a `[...]' or `(...)' block.         *)
(***************************************************************************)
C13_DeclarationsFromTrailingBlock ==
    \A k \in 1 .. Len(calls) :
       LET children == get_blocks_or_empty(Children[calls[k].rule])
       IN /\ calls[k].simple_block = Len(children)
          /\ calls[k].selector_tokens = SubSeq(children, 1, Len(children) - 1)
          /\ calls[k].declaration_tokens \in
                {<<>>, <<get_blocks_or_empty(children[Len(children)])>>}

(***************************************************************************)
(* C13 as amended: for every rule the assembler processes, the block whose *)
(* children are fed to the declaration parser is the rule's first child    *)
(* tagged simple_block, whatever bracket opened it, and the selector       *)
(* preamble is every child before that block; the children after it are    *)
(* fed to neither parser.                                                  *)
(***************************************************************************)
C13_DeclarationsFromFirstBlock ==
    \A k \in 1 .. Len(calls) :
       LET children == get_blocks_or_empty(Children[calls[k].rule])
           sb == calls[k].simple_block
       IN /\ sb \in 2 .. Len(children)
          /\ children[sb].tag = "simple_block"
          /\ \A i \in 1 .. sb - 1 : children[i].tag # "simple_block"
          /\ calls[k].selector_tokens = SubSeq(children, 1, sb - 1)
          /\ calls[k].declaration_tokens \in
                {<<>>, <<get_blocks_or_empty(children[sb])>>}

\* the rule `a[href] { x: 1 }': the declaration parser was fed the children
\* of `[href]'
C13_Witness ==
    /\ pc = "done"
    /\ \E k \in 1 .. Len(calls) :
          LET children == get_blocks_or_empty(Children[calls[k].rule])
          IN /\ calls[k].simple_block < Len(children)
             /\ children[Len(children)].tag = "simple_block"
             /\ calls[k].declaration_tokens # <<>>

(***************************************************************************)
(* C14 as stated: attach_block applied to a node holding a single token or *)
(* a function record returns false and leaves the node unchanged;          *)
(* add_function_argument applied to a node not holding a function record   *)
(* returns false and leaves it unchanged; attach_block succeeds only on a  *)
(* node holding a child list, add_function_argument only on a function     *)
(* node.                                                                   *)
(***************************************************************************)
C14_AttachOnlyOntoChildList ==
    [][LET node == stack[1].block
           after == stack'[1].block
       IN /\ pc' = "attach_block" =>
                /\ node.shape \in {"token", "function"} =>
                       (attach_failed' /\ after = node)
                /\ ~attach_failed' => node.shape = "list"
          /\ pc' = "add_function_argument" =>
                /\ node.shape # "function" => (attach_failed' /\ after = node)
                /\ ~attach_failed' => node.shape = "function"]_vars

(***************************************************************************)
(* C14 as amended: attach_block applied to a node holding a single token   *)
(* or a function record returns false and leaves the node unchanged;       *)
(* add_function_argument applied to a node not holding a function record   *)
(* returns false and leaves it unchanged; attach_block succeeds on a node  *)
(* holding a child list and on an empty node, which it turns into a child  *)
(* list of one, add_function_argument on function nodes only; a successful *)
(* call appends the block as the last child.                               *)
(***************************************************************************)
C14_AttachOntoListEmptyOrFunction ==
    [][LET node == stack[1].block
           after == stack'[1].block
       IN /\ pc' = "attach_block" =>
                /\ node.shape \in {"token", "function"} =>
                       (attach_failed' /\ after = node)
                /\ node.shape \in {"list", "empty"} =>
                       /\ ~attach_failed'
                       /\ after.shape = "list"
                       /\ Len(after.blocks) = Len(node.blocks) + 1
                       /\ SubSeq(after.blocks, 1, Len(node.blocks)) = node.blocks
                       /\ after.tag = node.tag /\ after.token = node.token
          /\ pc' = "add_function_argument" =>
                /\ node.shape # "function" => (attach_failed' /\ after = node)
                /\ node.shape = "function" =>
                       /\ ~attach_failed'
                       /\ after.shape = "function"
                       /\ Len(after.blocks) = Len(node.blocks) + 1
                       /\ SubSeq(after.blocks, 1, Len(node.blocks)) = node.blocks
                       /\ after.tag = node.tag /\ after.token = node.token]_vars

\* attach_block has refused a component, add_function_argument a child list
\* that attach_block had filled
C14_Witness ==
    \/ /\ pc = "attach_block" /\ attach_failed
       /\ stack[1].block = NewTokenBlock("component", Token("ident", 1))
    \/ /\ pc = "add_function_argument" /\ attach_failed
       /\ stack[1].block.shape = "list" /\ stack[1].block.blocks # <<>>

(***************************************************************************)
(* C15: the one-token pushback slot is never overfilled: at most one       *)
(* pushed-back token is pending at any time; a pending token is the token  *)
(* read last from the input, and it is pending only between its pushback   *)
(* and the first read of the consumer it was handed to (unless the guard   *)
(* tripped and nothing reads any more), so that read returns that token.   *)
(***************************************************************************)
C15_PushbackSlot ==
    /\ Len(tokeniser.backlog) <= 1
    /\ tokeniser.backlog # <<>> =>
          /\ tokeniser.pos >= 1
          /\ Head(tokeniser.backlog) = Token(input[tokeniser.pos], tokeniser.pos)
          /\ next_token = Head(tokeniser.backlog)
          /\ \/ GuardTripped
             \/ /\ Len(stack) > 1
                /\ Cur.mark = -1
                /\ Cur.fn \in {"qualified_rule_consumer", "at_rule_consumer",
                                "component_value_consumer"}

\* a token pushed back by simple_block_consumer awaits component_value_consumer
C15_Witness ==
    /\ tokeniser.backlog # <<>>
    /\ ~GuardTripped
    /\ Cur.fn = "component_value_consumer"
    /\ Len(stack) > 3
    /\ stack[Len(stack) - 1].fn = "simple_block_consumer"

(***************************************************************************)
(* C16: a consumer returns false, and consume_css_blocks stops before the  *)
(* end of the input, only if the recursion guard tripped: the only error   *)
(* ever recorded is BAD_NESTING, recorded by a guard that compared a       *)
(* counter above max_rec, and without it every call returns true and the   *)
(* driver returns with the whole input read, whatever the tokens were.     *)
(***************************************************************************)
C16_AbortsOnlyOnNesting ==
    /\ error \in {"none", "BAD_NESTING"}
    /\ GuardTripped <=> tripped # NoTrip
    /\ GuardTripped => tripped.level > max_rec
    /\ (\E i \in 1 .. Len(stack) : ~stack[i].ret) => GuardTripped
    /\ (Returned /\ ~GuardTripped) =>
          /\ stack[1].ret
          /\ eof
          /\ tokeniser = [pos |-> Len(input), backlog |-> <<>>]

\* closing brackets nobody opened, a stray `;' and a cdo: all read, no error
C16_Witness ==
    /\ pc = "done"
    /\ error = "none"
    /\ stack[1].ret
    /\ \E i, j \in 1 .. Len(input) :
          /\ input[i] \in {"ecurlbrace", "ebrace", "esqbrace"}
          /\ input[j] \in {"cdo", "semicolon"}
    /\ tokeniser.pos = Len(input)

(***************************************************************************)
(* C17 as stated: cdo and cdc tokens are ignored wherever they occur: no   *)
(* node of the returned tree, component or function_arg, carries one.      *)
(***************************************************************************)
C17_NoCdoCdcNode ==
    Returned => \A n \in TokenNodes(consumed_blocks) : n.type \notin CdTypes

\* The tokens of the given types, from position i of the input on, that lie
\* inside an open bracket or function, found by matching brackets: ctx is the
\* sequence of open constructs, innermost first, each the closing token it
\* waits for.  A function waits for `)' and opens nothing inside.  Each token
\* found comes with the tag of the node that wraps it.
RECURSIVE WrappedInside(_, _, _)
WrappedInside(i, ctx, types) ==
    IF i > Len(input) THEN {}
    ELSE LET t == input[i]
             opens == CASE t = "ocurlbrace" -> <<"ecurlbrace">>
                        [] t = "obrace" -> <<"ebrace">>
                        [] t = "osqbrace" -> <<"esqbrace">>
                        [] t = "function" -> <<"function">>
                        [] OTHER -> <<>>
         IN IF ctx = <<>> THEN WrappedInside(i + 1, opens, types)
            ELSE IF Head(ctx) = "function"
            THEN IF t = "ebrace" THEN WrappedInside(i + 1, Tail(ctx), types)
                 ELSE (IF t \in types
                       THEN {[pos |-> i, tag |-> "function_arg"]} ELSE {})
                          \cup WrappedInside(i + 1, ctx, types)
            ELSE IF t = Head(ctx) THEN WrappedInside(i + 1, Tail(ctx), types)
                 ELSE (IF t \in types
                       THEN {[pos |-> i, tag |-> "component"]} ELSE {})
                          \cup WrappedInside(i + 1, opens \o ctx, types)

\* the nodes of the returned tree that carry a token of the given types
Wrapped(types) ==
    {[pos |-> n.pos, tag |-> n.tag] :
        n \in {m \in TokenNodes(consumed_blocks) : m.type \in types}}

(***************************************************************************)
(* C17 as amended: cdo and cdc tokens are ignored at top level and in the  *)
(* preamble of a rule: no direct child of a qualified_rule or at_rule node *)
(* carries one.  Inside a simple block or a function they are kept like    *)
(* any other token: when the guard did not trip, the nodes of the returned *)
(* tree that carry a cdo/cdc are exactly one component per cdo/cdc inside  *)
(* an open bracket and one function_arg per cdo/cdc inside a function.     *)
(***************************************************************************)
C17_CdoCdcDroppedByRulesOnly ==
    Returned =>
       /\ \A r \in 1 .. Len(Children) :
             \A c \in 1 .. Len(Children[r].blocks) :
                Children[r].blocks[c].token.type \notin CdTypes
       /\ ~GuardTripped =>
             Wrapped(CdTypes) = WrappedInside(1, <<>>, CdTypes)

\* one cdo dropped in front of a rule, one kept inside its block
C17_Witness ==
    /\ pc = "done"
    /\ \E n \in TokenNodes(consumed_blocks) : n.type \in CdTypes
    /\ \E i \in 1 .. Len(input) :
          /\ input[i] \in CdTypes
          /\ \A n \in TokenNodes(consumed_blocks) : n.pos # i
    /\ Len(Children) = 1

(***************************************************************************)
(* C18 as stated: an at_keyword token met inside a rule body is processed  *)
(* by the at-rule consumer and is not wrapped as a component child of the  *)
(* block: the nodes that carry an at_keyword are direct children of rules. *)
(***************************************************************************)
C18_AtKeywordInBodyStartsAtRule ==
    Returned =>
       \A n \in TokenNodes(consumed_blocks) :
          n.type = "at_keyword" =>
             \E r \in 1 .. Len(Children) :
                \E c \in 1 .. Len(Children[r].blocks) :
                   /\ Children[r].blocks[c].token.type = "at_keyword"
                   /\ Children[r].blocks[c].token.pos = n.pos

(***************************************************************************)
(* C18 as amended: at_rule_consumer is called by consume_css_blocks only,  *)
(* with top as parent, so at_rule nodes are direct children of top; an     *)
(* at_keyword token met inside a rule body is wrapped like any other       *)
(* token, as a component child of the innermost open block (a function_arg *)
(* inside a function): when the guard did not trip, every at_keyword of    *)
(* the input is carried by exactly one node of the returned tree.          *)
(***************************************************************************)
C18_AtKeywordInBodyIsComponent ==
    /\ \A i \in 1 .. Len(stack) :
          stack[i].fn = "at_rule_consumer" => (i = 2 /\ stack[i].top = 1)
    /\ Returned =>
          \A r \in 1 .. Len(Children) :
             \A c \in 1 .. Len(Children[r].blocks) :
                ~HasTag(Children[r].blocks[c], "at_rule")
    /\ (Returned /\ ~GuardTripped) =>
          LET nodes == Wrapped({"at_keyword"})
              inside == WrappedInside(1, <<>>, {"at_keyword"})
          IN /\ {n.pos : n \in nodes} =
                   {p \in 1 .. Len(input) : input[p] = "at_keyword"}
             /\ Cardinality(nodes) = Cardinality({n.pos : n \in nodes})
             /\ inside \subseteq nodes
             /\ \A n \in nodes \ inside : n.tag = "component"

\* a rule whose block holds a component carrying an at_keyword
C18_Witness ==
    /\ pc = "done"
    /\ \E n \in WrappedInside(1, <<>>, {"at_keyword"}) :
          n.tag = "component" /\ n \in Wrapped({"at_keyword"})
    /\ Len(Children) = 1
    /\ Children[1].tag = "qualified_rule"

(***************************************************************************)
(* C19: the function consumer builds a flat argument list: whitespace,     *)
(* comma, delim and `(' produce no node, the first `)' or the end of input *)
(* ends the function, and every other token, a nested function token       *)
(* included, becomes exactly one function_arg child, in input order; so    *)
(* `hsl(0, 100%, 50%)' yields a function node with three function_arg      *)
(* children.                                                               *)
(***************************************************************************)
\* the function nodes of the tree under node
RECURSIVE FunctionNodes(_)
FunctionNodes(node) ==
    (IF node.tag = "function" THEN {node} ELSE {})
        \cup UNION {FunctionNodes(node.blocks[i]) : i \in 1 .. Len(node.blocks)}

\* the argument tokens of a function whose first token after the header is
\* at position i, read off the input
RECURSIVE ArgumentTokens(_)
ArgumentTokens(i) ==
    IF i > Len(input) \/ input[i] = "ebrace" THEN <<>>
    ELSE IF input[i] \in {"whitespace", "comma", "delim", "obrace"}
         THEN ArgumentTokens(i + 1)
         ELSE <<Token(input[i], i)>> \o ArgumentTokens(i + 1)

C19_FlatArgumentList ==
    (Returned /\ ~GuardTripped) =>
       \A f \in FunctionNodes(consumed_blocks) :
          LET args == ArgumentTokens(f.token.pos + 1)
          IN /\ f.token.type = "function"
             /\ Len(f.blocks) = Len(args)
             /\ \A k \in 1 .. Len(args) :
                   f.blocks[k] = NewTokenBlock("function_arg", args[k])

\* `* { color: hsl(0, 100%, 50%) !important }': three arguments
C19_Witness ==
    /\ pc = "done"
    /\ input = HslRule
    /\ \E f \in FunctionNodes(consumed_blocks) :
          /\ Len(f.blocks) = 3
          /\ \A k \in 1 .. 3 : f.blocks[k].tag = "function_arg"
          /\ [k \in 1 .. 3 |-> f.blocks[k].token.type] =
                <<"number", "percentage", "percentage">>

(***************************************************************************)
(* C20: the end of input inside an open construct is tolerated: when the   *)
(* guard has not tripped, every consumer that returns after the end of     *)
(* input was met returns true, and the block it built (the function with   *)
(* the arguments collected so far, the simple block with its children, the *)
(* enclosing rule) is attached as the last child of its parent.            *)
(***************************************************************************)
C20_EofInsideOpenConstruct ==
    [][(Len(stack') < Len(stack) /\ eof /\ ~GuardTripped) =>
          /\ stack'[Len(stack')].ret
          /\ Cur.block # NoBlock =>
                LET parent == stack'[Cur.top].block
                IN /\ parent.blocks # <<>>
                   /\ parent.blocks[Len(parent.blocks)] = Cur.block
                   /\ SubSeq(parent.blocks, 1, Len(parent.blocks) - 1) =
                         stack[Cur.top].block.blocks]_vars

\* `p { f( x': the function, the block and the rule were never closed, and
\* all of them are in the tree
C20_Witness ==
    /\ pc = "done"
    /\ input = <<"ident", "ocurlbrace", "function", "ident">>
    /\ result.kind = "sheet"
    /\ Len(Children) = 1
    /\ Len(Children[1].blocks) = 2
    /\ Len(Children[1].blocks[2].blocks) = 1
    /\ Children[1].blocks[2].blocks[1].tag = "function"
    /\ Len(Children[1].blocks[2].blocks[1].blocks) = 1

(***************************************************************************)
(* Flat rules                                                              *)
(***************************************************************************)
StructureTypes ==
    {"ocurlbrace", "ecurlbrace", "obrace", "ebrace", "osqbrace", "esqbrace",
     "function", "at_keyword"}

\* the tokens of the input at positions a .. b, whitespace left out
TokensBetween(a, b) ==
    SelectSeq([i \in 1 .. b - a + 1 |-> Token(input[a + i - 1], a + i - 1)],
              LAMBDA t : t.type # "whitespace")

\* one component node for each token, in order
Components(tokens) ==
    [i \in 1 .. Len(tokens) |-> NewTokenBlock("component", tokens[i])]

\* the input is a preamble without bracket, function or at_keyword, a `{'
\* at position o, a body without them, and a `}' as last token
FlatRuleAt(o) ==
    /\ o \in 1 .. Len(input) - 1
    /\ input[o] = "ocurlbrace"
    /\ input[Len(input)] = "ecurlbrace"
    /\ \A i \in 1 .. Len(input) - 1 : i # o => input[i] \notin StructureTypes

\* the qualified rule the claim describes for such an input
FlatRuleNode(o) ==
    [NewBlock("qualified_rule") EXCEPT !.blocks =
        Components(TokensBetween(1, o - 1))
            \o <<[NewBlock("simple_block") EXCEPT !.blocks =
                     Components(TokensBetween(o + 1, Len(input) - 1))]>>]

(***************************************************************************)
(* C21 as stated: for an input made of a preamble of k non-whitespace      *)
(* tokens (no bracket, function or at_keyword), a `{', m such tokens and a *)
(* `}', top gets exactly one qualified_rule child: k components in input   *)
(* order, then one simple_block of m components in input order.            *)
(***************************************************************************)
C21_FlatRuleTree ==
    \A o \in 1 .. Len(input) :
       (Returned /\ FlatRuleAt(o)) => Children = <<FlatRuleNode(o)>>

(***************************************************************************)
(* C21 as amended: for an input made of a preamble of k non-whitespace     *)
(* tokens (no bracket, function, at_keyword, cdo or cdc), a `{', m         *)
(* non-whitespace tokens (no bracket, function or at_keyword) and a `}',   *)
(* top gets exactly one qualified_rule child: k components in input order, *)
(* then one simple_block of m components in input order.                   *)
(***************************************************************************)
C21_FlatRuleTreeWithoutCd ==
    \A o \in 1 .. Len(input) :
       (/\ Returned
        /\ FlatRuleAt(o)
        /\ \A i \in 1 .. o - 1 : input[i] \notin CdTypes)
           => Children = <<FlatRuleNode(o)>>

\* `p { color: red }' parsed: one component, a block of three
C21_Witness ==
    /\ pc = "done"
    /\ input = SimpleRule
    /\ Children = <<FlatRuleNode(3)>>
    /\ Len(Children[1].blocks) = 2
    /\ Len(Children[1].blocks[2].blocks) = 3

(***************************************************************************)
(* Top-level rules read off the input                                      *)
(***************************************************************************)
\* The top-level rules of the input from position i on, found by matching
\* brackets: kind is the rule being read ("none" between rules), ctx the
\* open constructs inside it, innermost first, each the closing token it
\* waits for.  For each rule: its tag and the position of the token that
\* ended it (0 when the input ended first).
RECURSIVE RulesFrom(_, _, _)
RulesFrom(i, kind, ctx) ==
    IF i > Len(input)
    THEN IF kind = "none" THEN <<>> ELSE <<[tag |-> kind, end |-> 0]>>
    ELSE LET t == input[i]
             opens == CASE t = "ocurlbrace" -> <<"ecurlbrace">>
                        [] t = "obrace" -> <<"ebrace">>
                        [] t = "osqbrace" -> <<"esqbrace">>
                        [] t = "function" -> <<"function">>
                        [] OTHER -> <<>>
         IN IF kind = "none"
            THEN IF t = "whitespace" THEN RulesFrom(i + 1, "none", <<>>)
                 ELSE RulesFrom(i, IF t = "at_keyword" THEN "at_rule"
                                   ELSE "qualified_rule", <<>>)
            ELSE IF ctx = <<>>
            THEN IF t = "semicolon" /\ kind = "at_rule"
                 THEN <<[tag |-> kind, end |-> i]>> \o RulesFrom(i + 1, "none", <<>>)
                 ELSE RulesFrom(i + 1, kind, opens)
            ELSE IF Head(ctx) = "function"
            THEN RulesFrom(i + 1, kind, IF t = "ebrace" THEN Tail(ctx) ELSE ctx)
            ELSE IF t # Head(ctx) THEN RulesFrom(i + 1, kind, opens \o ctx)
            ELSE IF Tail(ctx) = <<>> /\ t = "ecurlbrace"
                 THEN <<[tag |-> kind, end |-> i]>> \o RulesFrom(i + 1, "none", <<>>)
                 ELSE RulesFrom(i + 1, kind, Tail(ctx))

(***************************************************************************)
(* C22: an at-rule ends at the first semicolon at its own level or right   *)
(* after its first `{...}' block, whichever comes first; the semicolon     *)
(* produces no node and the tokens that follow start a new top-level rule. *)
(* A qualified rule is not ended by a semicolon, which becomes a component *)
(* of it.  So, when the guard did not trip, the children of top are the    *)
(* rules read off the input this way, and every semicolon but those that   *)
(* ended an at-rule is carried by a node.                                  *)
(***************************************************************************)
C22_AtRuleEndsAtSemicolon ==
    (Returned /\ ~GuardTripped) =>
       LET rules == RulesFrom(1, "none", <<>>)
           enders == {rules[k].end : k \in 1 .. Len(rules)}
       IN /\ [k \in 1 .. Len(Children) |-> Children[k].tag] =
                [k \in 1 .. Len(rules) |-> rules[k].tag]
          /\ {n.pos : n \in Wrapped({"semicolon"})} =
                {p \in 1 .. Len(input) : input[p] = "semicolon"} \ enders
          /\ \A k \in 1 .. Len(Children) :
                \A c \in 1 .. Len(Children[k].blocks) :
                   Children[k].blocks[c].token.type = "semicolon" =>
                      Children[k].tag = "qualified_rule"

\* `@x ; y': the semicolon ends the at-rule and y starts a qualified rule
C22_Witness ==
    /\ pc = "done"
    /\ input = <<"at_keyword", "semicolon", "ident">>
    /\ Len(Children) = 2
    /\ Children[1] = [NewBlock("at_rule") EXCEPT !.blocks =
                         <<NewTokenBlock("component", Token("at_keyword", 1))>>]
    /\ Children[2] = [NewBlock("qualified_rule") EXCEPT !.blocks =
                         <<NewTokenBlock("component", Token("ident", 3))>>]

(***************************************************************************)
(* C23: when the recursion guard trips inside the j-th top-level rule, the *)
(* rules 1 .. j-1 already attached to top stay attached and unchanged, the *)
(* j-th rule is not attached, and the driver consumes no further token, so *)
(* no rule after the j-th is attached: once the guard has tripped, top and *)
(* the tokeniser never change again, and top holds the rules that ended    *)
(* before the position the guard tripped at.                               *)
(***************************************************************************)
C23_TripKeepsEarlierRules ==
    /\ [](GuardTripped =>
            LET rules == RulesFrom(1, "none", <<>>)
                before == {k \in 1 .. Len(rules) :
                              rules[k].end # 0 /\ rules[k].end <= tripped.pos}
            IN /\ tokeniser.pos = tripped.pos
               /\ Len(Children) = Cardinality(before)
               /\ \A k \in before : Children[k].tag = rules[k].tag)
    /\ [][GuardTripped =>
            (stack'[1].block = stack[1].block /\ tokeniser' = tokeniser)]_vars

\* a complete rule, then a rule nested too deep and never closed: one child
C23_Witness ==
    /\ pc = "done"
    /\ GuardTripped
    /\ Len(Children) = 1
    /\ Children[1].tag = "qualified_rule"
    /\ tokeniser.pos < Len(input)

(***************************************************************************)
(* Closing brackets that close nothing                                     *)
(***************************************************************************)
Closers == {"ecurlbrace", "ebrace", "esqbrace"}

\* the nodes of the tree under node, node lying at depth d, that carry a
\* token: [pos, tag, depth]
RECURSIVE TokensAtDepth(_, _)
TokensAtDepth(node, d) ==
    (IF node.token = NoToken THEN {}
     ELSE {[pos |-> node.token.pos, tag |-> node.tag, depth |-> d]})
        \cup UNION {TokensAtDepth(node.blocks[i], d + 1) :
                       i \in 1 .. Len(node.blocks)}

\* The closing brackets of the input from position i on that close nothing,
\* found by matching brackets (ctx as in WrappedInside): each with the tag and
\* the depth of the node that wraps it, a child of the innermost open
\* construct, or of the rule when nothing is open.
RECURSIVE StrayClosers(_, _)
StrayClosers(i, ctx) ==
    IF i > Len(input) THEN {}
    ELSE LET t == input[i]
             opens == CASE t = "ocurlbrace" -> <<"ecurlbrace">>
                        [] t = "obrace" -> <<"ebrace">>
                        [] t = "osqbrace" -> <<"esqbrace">>
                        [] t = "function" -> <<"function">>
                        [] OTHER -> <<>>
             closes == /\ ctx # <<>>
                       /\ t = (IF Head(ctx) = "function" THEN "ebrace" ELSE Head(ctx))
             inner == ctx # <<>> /\ Head(ctx) = "function"
         IN IF closes THEN StrayClosers(i + 1, Tail(ctx))
            ELSE (IF t \in Closers
                  THEN {[pos |-> i,
                         tag |-> IF inner THEN "function_arg" ELSE "component",
                         depth |-> 2 + Len(ctx)]}
                  ELSE {})
                    \cup StrayClosers(i + 1, IF inner THEN ctx ELSE opens \o ctx)

(***************************************************************************)
(* C24: a simple block is closed only by a token equal to its own          *)
(* expected_end, or by eof: a closing bracket of another kind inside it    *)
(* closes neither the block nor an enclosing block but is wrapped as a     *)
(* component child of the innermost open block.  So, when the guard did    *)
(* not trip, the closing brackets carried by nodes of the returned tree    *)
(* are those that match no open bracket, each at the depth of the          *)
(* children of the construct that was open when it was read.               *)
(***************************************************************************)
C24_BlockClosedByOwnEndOnly ==
    (Returned /\ ~GuardTripped) =>
       {n \in TokensAtDepth(consumed_blocks, 0) : input[n.pos] \in Closers}
          = StrayClosers(1, <<>>)

\* `p { ) }': the `)' is a component of the block, which the `}' closes
C24_Witness ==
    /\ pc = "done"
    /\ input = <<"ident", "ocurlbrace", "ebrace", "ecurlbrace">>
    /\ Len(Children) = 1
    /\ Children[1].blocks[2] =
          [NewBlock("simple_block") EXCEPT !.blocks =
              <<NewTokenBlock("component", Token("ebrace", 3))>>]

(***************************************************************************)
(* C25: the assembler's protocol for each rule it processes: the selector  *)
(* parser's token functor returns the preamble children in order, each     *)
(* once, and then the end-of-block sentinel on every further call; the     *)
(* declaration parser is invoked only if the selector parser returned a    *)
(* selector, its functor returning the children of the block and then the  *)
(* sentinel; selectors are added to the style sheet only if the            *)
(* declaration parser returned a set with rules, and then every selector   *)
(* returned is associated, once, with that set.                            *)
(***************************************************************************)
C25_AssemblerProtocol ==
    /\ \A k \in 1 .. Len(calls) :
          LET c == calls[k]
              children == get_blocks_or_empty(Children[c.rule])
              decls == get_blocks_or_empty(children[c.simple_block])
              added == {j \in 1 .. Len(style_object.rules) :
                           style_object.rules[j].rule = c.rule}
          IN /\ Len(c.selector_returns) > c.simple_block
             /\ \A i \in 1 .. Len(c.selector_returns) :
                   c.selector_returns[i] =
                      IF i < c.simple_block THEN children[i]
                      ELSE css_parser_eof_block
             /\ c.declaration_returns # <<>> <=> c.selectors > 0
             /\ c.selectors > 0 =>
                   /\ Len(c.declaration_returns) > Len(decls) + 1
                   /\ \A i \in 1 .. Len(c.declaration_returns) :
                         c.declaration_returns[i] =
                            IF i <= Len(decls) THEN decls[i]
                            ELSE css_parser_eof_block
             /\ added # {} <=> (c.selectors > 0 /\ c.declarations = "rules")
             /\ added # {} =>
                   /\ Cardinality(added) = c.selectors
                   /\ {style_object.rules[j].selector : j \in added} =
                         1 .. c.selectors
             /\ \A l \in 1 .. k - 1 : calls[l].rule < c.rule
    /\ \A j \in 1 .. Len(style_object.rules) :
          \E k \in 1 .. Len(calls) : calls[k].rule = style_object.rules[j].rule

\* `p { color: red }': both parsers ran, two selectors share the declarations
C25_Witness ==
    /\ pc = "done"
    /\ input = SimpleRule
    /\ Len(calls) = 1
    /\ Len(calls[1].selector_returns) = 2 + MaxExtraCalls
    /\ Len(calls[1].declaration_returns) = 4 + MaxExtraCalls
    /\ Len(style_object.rules) = MaxSelectors

(***************************************************************************)
(* C26: the eof flag is monotonic and final: it is set when the whole      *)
(* input has been read and nothing is pushed back; once it is set it is    *)
(* never cleared, the tokeniser is not called again (no token is consumed  *)
(* or pushed back), and every step of the consumers is a return: each loop *)
(* on the call stack exits.                                                *)
(***************************************************************************)
C26_EofFinal ==
    /\ [](eof => tokeniser = [pos |-> Len(input), backlog |-> <<>>])
    /\ [][eof =>
            /\ eof'
            /\ tokeniser' = tokeniser
            /\ pc = "consume_css_blocks" =>
                  \/ Len(stack') < Len(stack)
                  \/ pc' \in {"consume_input", "blocks_gen_functor"}]_vars

\* eof met inside a function inside a block inside a rule: four loops to leave
C26_Witness ==
    /\ eof
    /\ pc = "consume_css_blocks"
    /\ Len(stack) >= 5
    /\ Cur.fn = "function_consumer"

(***************************************************************************)
(* C27: get_selectors_parser_functor is safe for every input: it never     *)
(* dereferences a position past the end of top's child list, also when     *)
(* the list is empty (empty or whitespace-only input, a first rule cut off *)
(* by the recursion guard), and the functor it returns yields the children *)
(* of the first top-level rule in order and then the end-of-block sentinel *)
(* on every further call.                                                  *)
(***************************************************************************)
C27_FunctorSafe ==
    /\ ~blocks_gen.undefined
    /\ blocks_gen.state # "crashed"
    /\ blocks_gen.state = "ready" =>
          LET children == get_blocks_or_empty(Children[1])
          IN \A i \in 1 .. Len(blocks_gen.returned) :
                blocks_gen.returned[i] =
                   IF i <= Len(children) THEN children[i]
                   ELSE css_parser_eof_block

(***************************************************************************)
(* Lines and bytes                                                         *)
(***************************************************************************)
RECURSIVE BytesOf(_)
BytesOf(lines) ==
    IF lines = <<>> THEN 0 ELSE Head(lines).len + BytesOf(Tail(lines))

(***************************************************************************)
(* C28: in buffered mode, after any calls of file_log_helper and           *)
(* flush_log_buf, io_buf.used never exceeds io_buf.size (and is the        *)
(* number of bytes of the lines the buffer holds); every call of           *)
(* fill_buffer found the whole line fitting in the free part of the        *)
(* buffer; and, a line longer than the buffer being written directly only  *)
(* after the buffer was flushed, the lines written to the descriptor       *)
(* followed by the lines still in the buffer are the lines handed to       *)
(* file_log_helper, in the order of the calls, as long as no write failed. *)
(***************************************************************************)
C28_BufferedLogging ==
    rspamd_log.is_buffered =>
       /\ rspamd_log.io_buf.used <= rspamd_log.io_buf.size
       /\ rspamd_log.io_buf.used = BytesOf(rspamd_log.io_buf.buf)
       /\ \A i \in 1 .. Len(log_os.fills) :
             log_os.fills[i].used + log_os.fills[i].len <= log_os.fills[i].size
       /\ ~log_os.failed =>
             log_os.file \o rspamd_log.io_buf.buf = log_os.lines

\* a line longer than the buffer was written directly, after lines that had
\* waited in the buffer, and a later line is in the buffer again
C28_Witness ==
    /\ rspamd_log.is_buffered
    /\ ~log_os.failed
    /\ rspamd_log.io_buf.buf # <<>>
    /\ \E i \in 2 .. Len(log_os.file) :
          /\ log_os.file[i].len > rspamd_log.io_buf.size
          /\ log_os.file[i - 1].len <= rspamd_log.io_buf.size
          /\ log_os.file[i] = log_os.lines[i]

(***************************************************************************)
(* C29: repeat suppression in file_log_function, for a message that        *)
(* reaches the repeat check (logger enabled, level admitted, not           *)
(* throttled) in a run without a failed write.  A message whose checksum   *)
(* equals that of the previous message is written as long as it is one of  *)
(* the first REPEATS_MIN consecutive repeats, and is not written when it   *)
(* is repeat 4 to 299.  A message with a different checksum that follows   *)
(* more than REPEATS_MIN repeats is written after a line "Last message     *)
(* repeated N times", N the number of repeats counted, and the counter of  *)
(* repeats is 0 again.                                                     *)
(***************************************************************************)
C29_RepeatSuppression ==
    [][LET message == log_os'.last.message
           line == LogLine(rspamd_log.cfg, FunctionF, message)
           summary == LogLine(rspamd_log.cfg, FUNCTION_file_log_function,
                              RepeatedLine(rspamd_log.repeats))
           same == rspamd_log_calculate_cksum(message)
                      = rspamd_log.last_line_cksum
           n == Len(log_os'.lines)
       IN (/\ log_os'.steps = log_os.steps + 1
           /\ log_os'.last.op = "rspamd_common_log_function"
           /\ rspamd_log.enabled
           /\ rspamd_log.type # "RSPAMD_LOG_SYSLOG"
           /\ LevelLeq(log_os'.last.log_level, rspamd_log.cfg.log_level)
           /\ ~(rspamd_log.throttling
                  /\ rspamd_log.throttling_time = log_os.now)
           /\ ~log_os'.failed)
          => /\ (same /\ rspamd_log.repeats + 1 <= REPEATS_MIN)
                  => /\ log_os'.lines = Append(log_os.lines, line)
                     /\ rspamd_log'.repeats = rspamd_log.repeats + 1
             /\ (same /\ rspamd_log.repeats + 1 \in 4 .. 299)
                  => /\ log_os'.lines = log_os.lines
                     /\ log_os'.file = log_os.file
                     /\ rspamd_log'.io_buf = rspamd_log.io_buf
                     /\ rspamd_log'.repeats = rspamd_log.repeats + 1
             /\ (~same /\ rspamd_log.repeats > REPEATS_MIN)
                  => /\ n >= Len(log_os.lines) + 2
                     /\ log_os'.lines[n] = line
                     /\ log_os'.lines[n - 1] = summary
                     /\ SubSeq(log_os'.lines, 1, Len(log_os.lines))
                           = log_os.lines
                     /\ rspamd_log'.repeats = 0]_vars

\* repeat 299 of MsgA was not written, and the MsgB that followed it was
\* written after "Last message repeated 299 times"
C29_Witness ==
    /\ ~log_os.failed
    /\ log_os.last = Called("rspamd_common_log_function", "G_LOG_LEVEL_INFO", MsgB)
    /\ rspamd_log.repeats = 0
    /\ Len(log_os.lines) = 3
    /\ log_os.lines[1].message = MsgA
    /\ log_os.lines[2].message = RepeatedLine(REPEATS_MAX - 1)
    /\ log_os.lines[3].message = MsgB

(***************************************************************************)
(* C30: after close_log returns the logger is disabled (enabled is FALSE)  *)
(* and, for a file logger, its descriptor is closed, in every state of the *)
(* logger, pending suppressed repeats (repeats > REPEATS_MIN) included;    *)
(* and no log line is written between close_log and the next open_log.     *)
(***************************************************************************)
C30_ClosedAfterCloseLog ==
    /\ log_os.last.op = "close_log" =>
          /\ ~rspamd_log.enabled
          /\ rspamd_log.type = "RSPAMD_LOG_FILE" =>
                rspamd_log.fd \notin log_os.open_fds \ StdFds
    /\ ~log_os.written_closed

(***************************************************************************)
(* C31: handling a failed write terminates: whatever the writes return, in *)
(* buffered and in unbuffered mode, no call of direct_write_log_line made  *)
(* through reopen_log, close_log, flush_log_buf and the logging functions  *)
(* is entered in the very state in which a call of it that has not         *)
(* returned was entered, which would nest such calls without bound.        *)
(***************************************************************************)
C31_WriteFailureTerminates == ~log_os.reentered

====
